---- MODULE Spec2Model ----
(***************************************************************************)
(* The explanation pipeline of debug-cli: OpenAIClient (prompt, completion *)
(* call, tolerant parsing of the reply, fixed fallback) and                *)
(* ExplanationService (cache key, TTL-gated cache, orchestration).         *)
(*                                                                         *)
(* Representation of Python values                                         *)
(*   - a text that the code searches, slices or concatenates (the reply    *)
(*     content, str(e), detailed_explanation) is a sequence of tokens;     *)
(*     a token is [q, s]: q = TRUE for a JSON string literal with content  *)
(*     s, q = FALSE for a bare lexeme s (a brace, a number, a prose word); *)
(*   - other str values are TLA+ strings;                                  *)
(*   - Optional[x] is <<>> for None and <<x>> for a present x;             *)
(*   - a float confidence is an integer number of tenths (0.3 is 3);       *)
(*   - a decoded JSON value is a record tagged by its Python type in t;    *)
(*   - a call's outcome is [raised, cls, msg, val]: the value returned or  *)
(*     the exception raised (class and message).                           *)
(***************************************************************************)
EXTENDS Integers, Sequences, FiniteSets, TLC

----------------------------------------------------------------------------
(* Bounds of the model *)

\* longest reply drawn token by token from Alphabet
MaxLen == 3
\* number of explain_command calls in one behaviour
MaxExplains == 3
\* last clock tick
MaxTime == 3
\* largest cache_ttl, in seconds
MaxTTL == 1
\* clock ticks per second (the resolution of datetime.now())
TicksPerSecond == 2
\* width of hash() in bits
HashBits == 6
\* longest list given to explain_multiple_commands
MaxBatch == 2
\* longest fix_suggestions list given to primary_fix
MaxFixes == 3
\* longest stderr given to error_summary, in characters
MaxStderr == 7
\* largest count given to get_last_failed_commands, and the negated smallest
MaxCount == 4
\* changes a caller makes to the Explanations it holds
MaxMutations == 2

----------------------------------------------------------------------------
(* Python values *)

None == <<>>
Some(x) == <<x>>

Lit(s) == [q |-> TRUE, s |-> s]
Raw(s) == [q |-> FALSE, s |-> s]

\* a Python str as a text
Text(s) == IF s = "" THEN <<>> ELSE <<Raw(s)>>

LB == Raw("{")
RB == Raw("}")
LSq == Raw("[")
RSq == Raw("]")
Colon == Raw(":")
Comma == Raw(",")

JStr(s) == [t |-> "str", s |-> s]
JNum(n) == [t |-> "num", n |-> n]
JNull == [t |-> "null"]
JList(xs) == [t |-> "list", xs |-> xs]
JDict(d) == [t |-> "dict", d |-> d]

\* the numerals of the model and their values in tenths
NumLits == {"0", "0.3", "0.5", "0.8", "0.9", "1", "1.5", "-0.1"}

NumValue(s) ==
    CASE s = "0" -> 0
      [] s = "0.3" -> 3
      [] s = "0.5" -> 5
      [] s = "0.8" -> 8
      [] s = "0.9" -> 9
      [] s = "1" -> 10
      [] s = "1.5" -> 15
      [] s = "-0.1" -> 0 - 1

NoExplanation ==
    [summary |-> "", detailed_explanation |-> <<>>, root_cause |-> "",
     fix_suggestions |-> <<>>, confidence |-> 0,
     related_errors |-> None, prevention_tips |-> None]

Ok(v) == [raised |-> FALSE, cls |-> "", msg |-> "", val |-> v]
Raise(cls, msg) == [raised |-> TRUE, cls |-> cls, msg |-> msg, val |-> NoExplanation]

\* the exception classes below ValueError (pydantic's ValidationError and
\* json.JSONDecodeError are ValueErrors)
ValueErrors == {"ValueError", "JSONDecodeError", "ValidationError"}

----------------------------------------------------------------------------
(* str.find, str.rfind and slicing, with Python's 0-based indices *)

Find(content, tok) ==
    LET hits == {i \in 1..Len(content) : content[i] = tok}
    IN  IF hits = {} THEN 0 - 1
        ELSE (CHOOSE i \in hits : \A j \in hits : i <= j) - 1

RFind(content, tok) ==
    LET hits == {i \in 1..Len(content) : content[i] = tok}
    IN  IF hits = {} THEN 0 - 1
        ELSE (CHOOSE i \in hits : \A j \in hits : i >= j) - 1

\* content[a:b] for 0 <= a <= b <= len(content)
Slice(content, a, b) == SubSeq(content, a + 1, b)

----------------------------------------------------------------------------
(* json.loads on a text: a recursive-descent decoder *)

JFail == [ok |-> FALSE, val |-> JNull, next |-> 0]
JOk(v, n) == [ok |-> TRUE, val |-> v, next |-> n]

RECURSIVE ParseValue(_, _)
RECURSIVE ParseMembers(_, _, _)
RECURSIVE ParseElements(_, _, _)

\* the members of an object from position i on; a repeated key keeps the
\* last value
ParseMembers(toks, i, acc) ==
    IF i + 1 > Len(toks) THEN JFail
    ELSE IF ~toks[i].q \/ toks[i + 1] # Colon THEN JFail
    ELSE LET v == ParseValue(toks, i + 2)
         IN  IF ~v.ok \/ v.next > Len(toks) THEN JFail
             ELSE LET acc2 == (toks[i].s :> v.val) @@ acc
                  IN  IF toks[v.next] = RB THEN JOk(JDict(acc2), v.next + 1)
                      ELSE IF toks[v.next] = Comma
                           THEN ParseMembers(toks, v.next + 1, acc2)
                           ELSE JFail

ParseElements(toks, i, acc) ==
    LET v == ParseValue(toks, i)
    IN  IF ~v.ok \/ v.next > Len(toks) THEN JFail
        ELSE LET acc2 == Append(acc, v.val)
             IN  IF toks[v.next] = RSq THEN JOk(JList(acc2), v.next + 1)
                 ELSE IF toks[v.next] = Comma
                      THEN ParseElements(toks, v.next + 1, acc2)
                      ELSE JFail

ParseValue(toks, i) ==
    IF i > Len(toks) THEN JFail
    ELSE LET tok == toks[i]
         IN  IF tok.q THEN JOk(JStr(tok.s), i + 1)
             ELSE IF tok = LB
                  THEN IF i + 1 <= Len(toks) /\ toks[i + 1] = RB
                       THEN JOk(JDict(<<>>), i + 2)
                       ELSE ParseMembers(toks, i + 1, <<>>)
             ELSE IF tok = LSq
                  THEN IF i + 1 <= Len(toks) /\ toks[i + 1] = RSq
                       THEN JOk(JList(<<>>), i + 2)
                       ELSE ParseElements(toks, i + 1, <<>>)
             ELSE IF tok.s = "null" THEN JOk(JNull, i + 1)
             ELSE IF tok.s \in NumLits THEN JOk(JNum(NumValue(tok.s)), i + 1)
             ELSE JFail

\* json.loads: the whole text must be one value
JsonLoads(json_str) ==
    LET v == ParseValue(json_str, 1)
    IN  IF v.ok /\ v.next = Len(json_str) + 1
        THEN [raised |-> FALSE, cls |-> "", val |-> v.val]
        ELSE [raised |-> TRUE, cls |-> "JSONDecodeError", val |-> JNull]

----------------------------------------------------------------------------
(* The models: pydantic's validation at construction *)

\* FixSuggestion(description=..., command=..., explanation=..., confidence=...)
\* with confidence already a float: ge=0.0, le=1.0
NewFixSuggestion(description, command, explanation, confidence) ==
    IF \/ description.t # "str"
       \/ command.t \notin {"str", "null"}
       \/ explanation.t # "str"
       \/ confidence < 0
       \/ confidence > 10
    THEN Raise("ValidationError", "validation error for FixSuggestion")
    ELSE Ok([description |-> description.s,
             command |-> IF command.t = "null" THEN None ELSE Some(command.s),
             explanation |-> explanation.s,
             confidence |-> confidence])

\* an Optional[List[str]] argument
IsOptStrList(v) ==
    \/ v.t = "null"
    \/ v.t = "list" /\ \A i \in 1..Len(v.xs) : v.xs[i].t = "str"

OptStrList(v) ==
    IF v.t = "null" THEN None ELSE Some([i \in 1..Len(v.xs) |-> v.xs[i].s])

\* a variant of Explanation without the bounds ge=0.0, le=1.0
NewExplanationUnbounded(summary, detailed, root_cause, fixes, confidence, related, tips) ==
    IF \/ summary.t # "str"
       \/ detailed.t # "str"
       \/ root_cause.t # "str"
       \/ ~IsOptStrList(related)
       \/ ~IsOptStrList(tips)
    THEN Raise("ValidationError", "validation error for Explanation")
    ELSE Ok([summary |-> summary.s,
             detailed_explanation |-> Text(detailed.s),
             root_cause |-> root_cause.s,
             fix_suggestions |-> fixes,
             confidence |-> confidence,
             related_errors |-> OptStrList(related),
             prevention_tips |-> OptStrList(tips)])

\* Explanation(summary=..., ..., fix_suggestions=<FixSuggestions>,
\* confidence=<float>, related_errors=..., prevention_tips=...)
NewExplanation(summary, detailed, root_cause, fixes, confidence, related, tips) ==
    IF \/ summary.t # "str"
       \/ detailed.t # "str"
       \/ root_cause.t # "str"
       \/ confidence < 0
       \/ confidence > 10
       \/ ~IsOptStrList(related)
       \/ ~IsOptStrList(tips)
    THEN Raise("ValidationError", "validation error for Explanation")
    ELSE Ok([summary |-> summary.s,
             detailed_explanation |-> Text(detailed.s),
             root_cause |-> root_cause.s,
             fix_suggestions |-> fixes,
             confidence |-> confidence,
             related_errors |-> OptStrList(related),
             prevention_tips |-> OptStrList(tips)])

\* max(items, key=lambda x: x.confidence) from position i on, best being
\* the maximum of the items before i: a later item replaces it only if its
\* key is greater
RECURSIVE PyMax(_, _, _)
PyMax(items, i, best) ==
    IF i > Len(items) THEN best
    ELSE PyMax(items, i + 1,
               IF items[i].confidence > best.confidence THEN items[i] ELSE best)

\* a variant of the fold that keeps the last of the items of greatest key
primary_fix_last(fix_suggestions) ==
    IF fix_suggestions = <<>> THEN None
    ELSE Some(fix_suggestions[
             CHOOSE i \in 1..Len(fix_suggestions) :
                 /\ \A j \in 1..Len(fix_suggestions) :
                        fix_suggestions[j].confidence <= fix_suggestions[i].confidence
                 /\ \A j \in (i + 1)..Len(fix_suggestions) :
                        fix_suggestions[j].confidence < fix_suggestions[i].confidence])

\* Explanation.primary_fix
primary_fix(fix_suggestions) ==
    IF fix_suggestions = <<>> THEN None
    ELSE Some(PyMax(fix_suggestions, 2, fix_suggestions[1]))

----------------------------------------------------------------------------
(* CommandResult: a str that is stripped and split is a sequence of        *)
(* one-character strings                                                   *)

\* the characters str.strip() removes
Whitespace == {" ", "\n", "\t"}

RECURSIVE LStrip(_)
LStrip(s) == IF s = <<>> \/ Head(s) \notin Whitespace THEN s ELSE LStrip(Tail(s))

RECURSIVE RStrip(_)
RStrip(s) ==
    IF s = <<>> \/ s[Len(s)] \notin Whitespace THEN s
    ELSE RStrip(SubSeq(s, 1, Len(s) - 1))

\* s.strip()
Strip(s) == RStrip(LStrip(s))

\* s.split(sep) from position i on: cur is the piece being read, acc the
\* pieces before it
RECURSIVE Split(_, _, _, _, _)
Split(s, sep, i, cur, acc) ==
    IF i > Len(s) THEN Append(acc, cur)
    ELSE IF s[i] = sep THEN Split(s, sep, i + 1, <<>>, Append(acc, cur))
    ELSE Split(s, sep, i + 1, Append(cur, s[i]), acc)

\* sep.join(pieces)
RECURSIVE JoinWith(_, _)
JoinWith(sep, pieces) ==
    IF pieces = <<>> THEN <<>>
    ELSE IF Len(pieces) = 1 THEN pieces[1]
    ELSE pieces[1] \o <<sep>> \o JoinWith(sep, Tail(pieces))

\* CommandResult.is_successful
is_successful(command_result) == command_result.exit_code = 0

\* CommandResult.has_error
has_error(stderr) == Strip(stderr) # <<>>

\* a variant of error_summary that keeps the whole text only below three
\* lines
error_summary_below(stderr) ==
    IF ~has_error(stderr) THEN <<>>
    ELSE LET Summary(lines) ==
                 IF Len(lines) < 3 THEN Strip(stderr)
                 ELSE JoinWith("\n", SubSeq(lines, 1, 3)) \o <<"\n", ".", ".", ".">>
         IN  Summary(Split(Strip(stderr), "\n", 1, <<>>, <<>>))

\* CommandResult.error_summary
error_summary(stderr) ==
    IF ~has_error(stderr) THEN <<>>
    ELSE LET Summary(lines) ==
                 IF Len(lines) <= 3 THEN Strip(stderr)
                 ELSE JoinWith("\n", SubSeq(lines, 1, 3)) \o <<"\n", ".", ".", ".">>
         IN  Summary(Split(Strip(stderr), "\n", 1, <<>>, <<>>))

----------------------------------------------------------------------------
(* OpenAIClient *)

\* a variant: dict.get(k), which gives None for a missing key
GetNoDefault(d, k, default) == IF k \in DOMAIN d THEN d[k] ELSE JNull

\* dict.get(k, default)
Get(d, k, default) == IF k \in DOMAIN d THEN d[k] ELSE default

\* float(v)
PyFloat(v) ==
    IF v.t = "num" THEN Ok(v.n)
    ELSE IF v.t = "str"
         THEN IF v.s \in NumLits THEN Ok(NumValue(v.s))
              ELSE Raise("ValueError", "could not convert string to float")
    ELSE Raise("TypeError", "float() argument must be a string or a real number")

RECURSIVE KeysOf(_)
KeysOf(S) ==
    IF S = {} THEN <<>>
    ELSE LET k == CHOOSE x \in S : TRUE
         IN  <<JStr(k)>> \o KeysOf(S \ {k})

\* what `for fix_data in v` iterates over: the elements of a list, the keys
\* of a dict, the characters of a str (a non-empty str stands for its
\* characters, each of them a str)
PyIter(v) ==
    IF v.t = "list" THEN Ok(v.xs)
    ELSE IF v.t = "dict" THEN Ok(KeysOf(DOMAIN v.d))
    ELSE IF v.t = "str" THEN Ok(IF v.s = "" THEN <<>> ELSE <<JStr(v.s)>>)
    ELSE Raise("TypeError", "object is not iterable")

\* a variant of the loop that puts each fix suggestion before the earlier
\* ones
RECURSIVE ParseFixesReversed(_, _, _)
ParseFixesReversed(items, i, acc) ==
    IF i > Len(items) THEN Ok(acc)
    ELSE LET fix_data == items[i]
         IN  IF fix_data.t # "dict"
             THEN Raise("AttributeError", "object has no attribute 'get'")
             ELSE LET c == PyFloat(Get(fix_data.d, "confidence", JNum(5)))
                  IN  IF c.raised THEN c
                      ELSE LET f == NewFixSuggestion(
                                        Get(fix_data.d, "description", JStr("")),
                                        Get(fix_data.d, "command", JNull),
                                        Get(fix_data.d, "explanation", JStr("")),
                                        c.val)
                           IN  IF f.raised THEN f
                               ELSE ParseFixesReversed(items, i + 1, <<f.val>> \o acc)

\* the loop over fix_suggestions
RECURSIVE ParseFixes(_, _, _)
ParseFixes(items, i, acc) ==
    IF i > Len(items) THEN Ok(acc)
    ELSE LET fix_data == items[i]
         IN  IF fix_data.t # "dict"
             THEN Raise("AttributeError", "object has no attribute 'get'")
             ELSE LET c == PyFloat(Get(fix_data.d, "confidence", JNum(5)))
                  IN  IF c.raised THEN c
                      ELSE LET f == NewFixSuggestion(
                                        Get(fix_data.d, "description", JStr("")),
                                        Get(fix_data.d, "command", JNull),
                                        Get(fix_data.d, "explanation", JStr("")),
                                        c.val)
                           IN  IF f.raised THEN f
                               ELSE ParseFixes(items, i + 1, Append(acc, f.val))

\* the mapping of the decoded object to an Explanation
MapFields(data) ==
    LET it == PyIter(Get(data, "fix_suggestions", JList(<<>>)))
    IN  IF it.raised THEN it
        ELSE LET fs == ParseFixes(it.val, 1, <<>>)
             IN  IF fs.raised THEN fs
                 ELSE LET c == PyFloat(Get(data, "confidence", JNum(5)))
                      IN  IF c.raised THEN c
                          ELSE NewExplanation(
                                   Get(data, "summary", JStr("Error analysis")),
                                   Get(data, "detailed_explanation", JStr("")),
                                   Get(data, "root_cause", JStr("")),
                                   fs.val,
                                   c.val,
                                   Get(data, "related_errors", JNull),
                                   Get(data, "prevention_tips", JNull))

\* a variant of the fallback with the two confidences exchanged
create_fallback_explanation_swapped(command_result, error_or_content) ==
    [summary |-> "Unable to generate detailed analysis",
     detailed_explanation |-> Text("Raw AI response: ") \o error_or_content,
     root_cause |-> "Analysis failed due to response parsing error",
     fix_suggestions |->
         <<[description |-> "Check the command syntax and try again",
            command |-> None,
            explanation |->
                "The command may have syntax errors or missing dependencies",
            confidence |-> 2]>>,
     confidence |-> 3,
     related_errors |-> Some(<<"Command parsing error", "AI service unavailable">>),
     prevention_tips |->
         Some(<<"Verify command syntax", "Check dependencies",
                "Try running with verbose flags">>)]

create_fallback_explanation(command_result, error_or_content) ==
    [summary |-> "Unable to generate detailed analysis",
     detailed_explanation |-> Text("Raw AI response: ") \o error_or_content,
     root_cause |-> "Analysis failed due to response parsing error",
     fix_suggestions |->
         <<[description |-> "Check the command syntax and try again",
            command |-> None,
            explanation |->
                "The command may have syntax errors or missing dependencies",
            confidence |-> 3]>>,
     confidence |-> 2,
     related_errors |-> Some(<<"Command parsing error", "AI service unavailable">>),
     prevention_tips |->
         Some(<<"Verify command syntax", "Check dependencies",
                "Try running with verbose flags">>)]

\* a variant handler that matches the listed classes by name only, without
\* their subclasses
ParseCatchesExact(cls) == cls \in {"KeyError", "ValueError"}

\* except (json.JSONDecodeError, KeyError, ValueError)
ParseCatches(cls) == cls \in ValueErrors \cup {"KeyError"}

\* a variant of the slice that stops before the last '}'
json_str_exclusive(content) ==
    IF content = None THEN None
    ELSE LET Cut(json_start, json_end) ==
                 IF json_start # 0 - 1 /\ json_end > json_start
                 THEN Some(Slice(content[1], json_start, json_end))
                 ELSE None
         IN  Cut(Find(content[1], LB), RFind(content[1], RB))

\* the text _parse_response gives to json.loads: content[json_start:json_end]
\* if the test on json_start and json_end passes, and none otherwise
json_str(content) ==
    IF content = None THEN None
    ELSE LET Cut(json_start, json_end) ==
                 IF json_start # 0 - 1 /\ json_end > json_start
                 THEN Some(Slice(content[1], json_start, json_end))
                 ELSE None
         IN  Cut(Find(content[1], LB), RFind(content[1], RB) + 1)

\* content is the Optional text of the reply
parse_response(content, command_result) ==
    IF content = None
    THEN Raise("AttributeError", "'NoneType' object has no attribute 'find'")
    ELSE LET fallback == Ok(create_fallback_explanation(command_result, content[1]))
             Except(try) == IF try.raised /\ ParseCatches(try.cls) THEN fallback
                            ELSE try
             Loaded(data) == IF data.raised THEN Raise(data.cls, "invalid JSON")
                             ELSE MapFields(data.val.d)
             Try(text) ==
                 IF text # None THEN Except(Loaded(JsonLoads(text[1])))
                 ELSE fallback
         IN  Try(json_str(content))

\* a variant handler: except openai.APIError
GenerateCatchesAPIError(cls) ==
    cls \in {"APITimeoutError", "APIConnectionError", "AuthenticationError",
             "InternalServerError"}

\* except Exception
GenerateCatches(cls) == TRUE

\* the outcome of a call with the number of completion requests it issued
WithRequests(res, n) ==
    [raised |-> res.raised, cls |-> res.cls, msg |-> res.msg, val |-> res.val,
     requests |-> n]

\* a variant of generate_explanation that calls create a second time when
\* the first call raised, the second call ending as the first
generate_explanation_retry(command_result, outcome) ==
    LET Except(try) ==
            IF try.raised /\ GenerateCatches(try.cls)
            THEN WithRequests(
                     Ok(create_fallback_explanation(command_result, Text(try.msg))),
                     IF outcome.kind = "raise" THEN 2 ELSE 1)
            ELSE WithRequests(try, 1)
    IN  Except(IF outcome.kind = "raise" THEN Raise(outcome.cls, outcome.msg)
               ELSE IF outcome.kind = "no_choices"
                    THEN Raise("IndexError", "list index out of range")
               ELSE parse_response(outcome.content, command_result))

\* a variant of generate_explanation whose fallback embeds the exception's
\* class name, type(e).__name__, instead of str(e)
generate_explanation_classname(command_result, outcome) ==
    LET Except(try) ==
            IF try.raised /\ GenerateCatches(try.cls)
            THEN WithRequests(
                     Ok(create_fallback_explanation(command_result, Text(try.cls))), 1)
            ELSE WithRequests(try, 1)
    IN  Except(IF outcome.kind = "raise" THEN Raise(outcome.cls, outcome.msg)
               ELSE IF outcome.kind = "no_choices"
                    THEN Raise("IndexError", "list index out of range")
               ELSE parse_response(outcome.content, command_result))

\* outcome is what self.client.chat.completions.create does: it raises
\* (kind "raise"), returns no choice (kind "no_choices") or returns a
\* message with the Optional text content (kind "reply"); create is called
\* once
generate_explanation(command_result, outcome) ==
    LET Except(try) ==
            IF try.raised /\ GenerateCatches(try.cls)
            THEN WithRequests(
                     Ok(create_fallback_explanation(command_result, Text(try.msg))), 1)
            ELSE WithRequests(try, 1)
    IN  Except(IF outcome.kind = "raise" THEN Raise(outcome.cls, outcome.msg)
               ELSE IF outcome.kind = "no_choices"
                    THEN Raise("IndexError", "list index out of range")
               ELSE parse_response(outcome.content, command_result))

----------------------------------------------------------------------------
(* Inputs: the replies and the other outcomes of the completion call *)

RECURSIVE SeqsOfLen(_, _)
SeqsOfLen(S, n) ==
    IF n = 0 THEN {<<>>}
    ELSE {Append(s, x) : s \in SeqsOfLen(S, n - 1), x \in S}

Alphabet == {Raw("x"), LB, RB, Lit("a"), Colon, Raw("1")}

\* every text over Alphabet of at most MaxLen tokens
ShortReplies == UNION {SeqsOfLen(Alphabet, n) : n \in 0..MaxLen}

\* the text of a JSON document, as json.dumps would write it
RECURSIVE Join(_)
Join(parts) ==
    IF parts = <<>> THEN <<>>
    ELSE IF Len(parts) = 1 THEN parts[1]
    ELSE parts[1] \o <<Comma>> \o Join(Tail(parts))

KV(k, v) == <<Lit(k), Colon>> \o v
ObjT(members) == <<LB>> \o Join(members) \o <<RB>>
ArrT(elems) == <<LSq>> \o Join(elems) \o <<RSq>>
StrT(s) == <<Lit(s)>>
NumT(s) == <<Raw(s)>>

FixA ==
    ObjT(<<KV("description", StrT("Install the package")),
           KV("command", StrT("npm install left-pad")),
           KV("explanation", StrT("The package is missing")),
           KV("confidence", NumT("0.9"))>>)

FixB ==
    ObjT(<<KV("description", StrT("Check the registry")),
           KV("explanation", StrT("The registry may be wrong")),
           KV("confidence", NumT("0.9"))>>)

FixC ==
    ObjT(<<KV("description", StrT("Retry later")),
           KV("confidence", NumT("0.3"))>>)

\* a reply object with the given fix_suggestions and confidence texts
Body(fixes, conf) ==
    ObjT(<<KV("summary", StrT("Package not found")),
           KV("detailed_explanation", StrT("The registry has no such package")),
           KV("root_cause", StrT("Typo in the package name")),
           KV("fix_suggestions", fixes),
           KV("confidence", conf),
           KV("related_errors", ArrT(<<StrT("E404"), StrT("ENOENT")>>)),
           KV("prevention_tips", ArrT(<<StrT("Check the name")>>))>>)

FullBody == Body(ArrT(<<FixA, FixB>>), NumT("0.8"))

\* a fix suggestion whose confidence is the given text
FixWith(conf) == ObjT(<<KV("description", StrT("Retry")), KV("confidence", conf)>>)

\* texts of values that are not a confidence in [0,1]
OddValues ==
    {NumT("1.5"), NumT("-0.1"), StrT("abc"), StrT("0.9"), NumT("null"),
     ArrT(<<>>), ObjT(<<>>)}

WellFormedBodies ==
    {FullBody,
     ObjT(<<>>),
     ObjT(<<KV("summary", StrT("Package not found"))>>),
     ObjT(<<KV("fix_suggestions", ArrT(<<ObjT(<<>>)>>))>>),
     ObjT(<<KV("confidence", NumT("0")), KV("confidence", NumT("1"))>>),
     Body(ArrT(<<FixB, FixA>>), NumT("1")),
     Body(ArrT(<<FixC, FixA, FixB>>), NumT("0")),
     Body(ArrT(<<FixA, FixC, FixB>>), NumT("0.5")),
     Body(ArrT(<<>>), NumT("0.5")),
     ObjT(<<KV("summary", NumT("1"))>>),
     ObjT(<<KV("related_errors", StrT("E404"))>>),
     ObjT(<<KV("prevention_tips", ArrT(<<NumT("1")>>))>>)}
    \cup {Body(ArrT(<<FixA>>), v) : v \in OddValues}
    \cup {Body(ArrT(<<FixA, FixWith(v)>>), NumT("0.8")) : v \in OddValues}
    \cup {Body(v, NumT("0.8")) :
            v \in {NumT("null"), NumT("1"), StrT(""), StrT("abc"), ObjT(<<>>),
                   ObjT(<<KV("a", NumT("1"))>>), ArrT(<<NumT("1")>>),
                   ArrT(<<StrT("abc")>>), ArrT(<<NumT("null")>>)}}

\* texts from '{' to '}' that json.loads rejects
MalformedBodies ==
    {SubSeq(FullBody, 1, Len(FullBody) - 1) \o <<RSq, RB>>,
     <<LB, Lit("summary"), Lit("Package not found"), RB>>,
     <<LB>> \o KV("summary", StrT("Package not found")) \o <<Comma, RB>>,
     <<LB>> \o KV("summary", <<Raw("Package")>>) \o <<RB>>,
     <<LB>> \o KV("fix_suggestions", <<LSq, LB, RB>>) \o <<RB>>,
     ObjT(<<>>) \o ObjT(<<>>),
     <<LB, LB, RB, RB>>,
     <<LB, Raw("see above"), RB>>}

Prefixes == {<<>>, <<Raw("Here is the analysis:")>>, <<Raw("Note"), RB>>, <<LB>>}
Suffixes == {<<>>, <<Raw("Hope this helps")>>, <<RB>>, <<LB>>}

StructuredReplies ==
    {p \o b \o s :
        p \in Prefixes, b \in WellFormedBodies \cup MalformedBodies, s \in Suffixes}

Replies == ShortReplies \cup StructuredReplies

Reply(content) == [kind |-> "reply", cls |-> "", msg |-> "", content |-> content]
Raises(cls, msg) == [kind |-> "raise", cls |-> cls, msg |-> msg, content |-> None]
NoChoices == [kind |-> "no_choices", cls |-> "", msg |-> "", content |-> None]

\* the ways the completion call fails
Failures ==
    {Raises("APITimeoutError", "Request timed out."),
     Raises("APIConnectionError", "Connection error."),
     Raises("AuthenticationError", "Error code: 401"),
     Raises("InternalServerError", "Error code: 500"),
     Raises("Exception", ""),
     NoChoices}

Outcomes == {Reply(Some(c)) : c \in Replies} \cup {Reply(None)} \cup Failures

----------------------------------------------------------------------------
(* Failure records: CommandResult with its Command *)

\* (command.text, stderr, exit_code): a base triple and one triple differing
\* from it in each field
KeyTriples ==
    {<<"npm install missing-package", "npm ERR! code E404", 1>>,
     <<"npm install missing-package", "npm ERR! code ENOENT", 1>>,
     <<"npm install missing-package", "npm ERR! code E404", 2>>,
     <<"ls /nonexistent", "npm ERR! code E404", 1>>,
     <<"npm install missing-package", "npm ERR! code EACCES", 2>>}

\* the fields of a record that are not part of the triple
Contexts ==
    {[working_directory |-> None, shell |-> None, stdout |-> "",
      timestamp |-> 0, execution_time |-> None],
     [working_directory |-> Some("/home/u/app"), shell |-> Some("zsh"),
      stdout |-> "added 1 package", timestamp |-> 1, execution_time |-> Some(3)]}

CommandResult(k, c) ==
    [text |-> k[1], stderr |-> k[2], exit_code |-> k[3],
     working_directory |-> c.working_directory, shell |-> c.shell,
     stdout |-> c.stdout, timestamp |-> c.timestamp,
     execution_time |-> c.execution_time]

Records == {CommandResult(k, c) : k \in KeyTriples, c \in Contexts}

Triple(r) == <<r.text, r.stderr, r.exit_code>>

----------------------------------------------------------------------------
(* Construction *)

\* `not x` for an Optional[str]
Falsy(x) == x = None \/ x = Some("")

\* a variant of OpenAIClient.__init__ that does not test the key
client_init_unchecked(api_key, env) ==
    [raised |-> FALSE, cls |-> "", msg |-> "",
     api_key |-> IF Falsy(api_key) THEN env ELSE api_key]

\* OpenAIClient.__init__(api_key), env being os.getenv("OPENAI_API_KEY"):
\* the exception raised or the client's api_key
client_init(api_key, env) ==
    LET Checked(key) ==
            IF Falsy(key)
            THEN [raised |-> TRUE, cls |-> "ValueError",
                  msg |-> "OpenAI API key is required. Set OPENAI_API_KEY environment variable.",
                  api_key |-> None]
            ELSE [raised |-> FALSE, cls |-> "", msg |-> "", api_key |-> key]
    IN  Checked(IF Falsy(api_key) THEN env ELSE api_key)

\* ExplanationService.__init__(cache_enabled, cache_ttl): it builds
\* OpenAIClient() after setting its fields, and what OpenAIClient raises
\* leaves it
service_init(cache_enabled, cache_ttl, env) == client_init(None, env)

\* the record of a construction: the object asked for, its outcome, the
\* api_key argument and the environment at that time, and whether an earlier
\* construction had failed
Built(obj, res, api_key, env, failed_before) ==
    [kind |-> IF res.raised THEN "failed" ELSE obj, obj |-> obj,
     cls |-> res.cls, api_key |-> res.api_key, arg |-> api_key, env |-> env,
     failed_before |-> failed_before]

----------------------------------------------------------------------------
(* ExplanationService: the cache key *)

\* json.dumps(key_data, sort_keys=True): the keys in sorted order
KeyDump(command_result) ==
    ObjT(<<KV("command", StrT(command_result.text)),
           KV("exit_code", NumT(ToString(command_result.exit_code))),
           KV("stderr", StrT(command_result.stderr))>>)

\* the code of one token of a dumped key
TokCode(tok) ==
    CASE tok.s = "{" -> 1
      [] tok.s = "}" -> 2
      [] tok.s = ":" -> 3
      [] tok.s = "," -> 4
      [] tok.s = "command" -> 5
      [] tok.s = "exit_code" -> 6
      [] tok.s = "stderr" -> 7
      [] tok.s = "1" -> 8
      [] tok.s = "2" -> 9
      [] tok.s = "npm install missing-package" -> 10
      [] tok.s = "ls /nonexistent" -> 11
      [] tok.s = "npm ERR! code E404" -> 12
      [] tok.s = "npm ERR! code ENOENT" -> 13
      [] tok.s = "npm ERR! code EACCES" -> 27
      [] OTHER -> 14

\* hash(str): a value of HashBits bits that depends on the whole text and on
\* the seed the interpreter drew at start-up; h is the hash of the first
\* i - 1 tokens
RECURSIVE StrHash(_, _, _)
StrHash(h, text, i) ==
    IF i > Len(text) THEN h
    ELSE StrHash((h * 5 + TokCode(text[i])) % (2 ^ HashBits), text, i + 1)

\* a variant of the key that also hashes the command's timestamp
generate_cache_key_timestamp(seed, command_result) ==
    ToString(StrHash(seed,
                     KeyDump(command_result)
                     \o KV("timestamp", NumT(ToString(command_result.timestamp))),
                     1))

generate_cache_key(seed, command_result) ==
    ToString(StrHash(seed, KeyDump(command_result), 1))

----------------------------------------------------------------------------
(* ExplanationService: the cache *)

\* datetime.isoformat(): the seconds, then the fraction unless it is zero
isoformat(t) ==
    IF t % TicksPerSecond = 0 THEN <<t \div TicksPerSecond>>
    ELSE <<t \div TicksPerSecond, t % TicksPerSecond>>

\* datetime.fromisoformat(s)
fromisoformat(s) ==
    IF s = <<>> THEN Raise("ValueError", "Invalid isoformat string: ''")
    ELSE IF Len(s) > 2 \/ (Len(s) = 2 /\ s[2] \notin 0..(TicksPerSecond - 1))
         THEN Raise("ValueError", "Invalid isoformat string")
    ELSE Ok(s[1] * TicksPerSecond + (IF Len(s) > 1 THEN s[2] ELSE 0))

\* a variant: timedelta(milliseconds=n) where a tick is a millisecond
timedelta_milliseconds(seconds) == seconds

\* timedelta(seconds=n)
timedelta(seconds) == seconds * TicksPerSecond

\* a variant of the validity test with an inclusive bound
is_cache_valid_inclusive(cached_data, cache_ttl, clock) ==
    IF DOMAIN cached_data = {} THEN Ok(FALSE)
    ELSE LET cached_time == fromisoformat(Get(cached_data, "timestamp", <<>>))
         IN  IF cached_time.raised THEN cached_time
             ELSE Ok(clock - cached_time.val <= timedelta(cache_ttl))

\* a variant of the validity test with a TTL of at least one second
is_cache_valid_clamped(cached_data, cache_ttl, clock) ==
    IF DOMAIN cached_data = {} THEN Ok(FALSE)
    ELSE LET cached_time == fromisoformat(Get(cached_data, "timestamp", <<>>))
         IN  IF cached_time.raised THEN cached_time
             ELSE Ok(clock - cached_time.val
                         < timedelta(IF cache_ttl <= 0 THEN 1 ELSE cache_ttl))

is_cache_valid(cached_data, cache_ttl, clock) ==
    IF DOMAIN cached_data = {} THEN Ok(FALSE)
    ELSE LET cached_time == fromisoformat(Get(cached_data, "timestamp", <<>>))
         IN  IF cached_time.raised THEN cached_time
             ELSE Ok(clock - cached_time.val < timedelta(cache_ttl))

\* FixSuggestion(**fix_data) for each stored fix
RECURSIVE LoadFixes(_, _, _)
LoadFixes(items, i, acc) ==
    IF i > Len(items) THEN Ok(acc)
    ELSE LET fix_data == items[i]
         IN  IF \/ {"description", "explanation", "confidence"} \ DOMAIN fix_data # {}
                \/ fix_data.confidence < 0
                \/ fix_data.confidence > 10
             THEN Raise("ValidationError", "validation error for FixSuggestion")
             ELSE LoadFixes(items, i + 1,
                      Append(acc,
                          [description |-> fix_data.description,
                           command |-> Get(fix_data, "command", None),
                           explanation |-> fix_data.explanation,
                           confidence |-> fix_data.confidence]))

\* a variant of the load that reads prevention_tips from related_errors
load_from_cache_related(cached_data) ==
    LET explanation_data == Get(cached_data, "explanation", <<>>)
        fix_suggestions == LoadFixes(Get(explanation_data, "fix_suggestions", <<>>), 1, <<>>)
        confidence == Get(explanation_data, "confidence", 5)
    IN  IF fix_suggestions.raised THEN fix_suggestions
        ELSE IF confidence < 0 \/ confidence > 10
             THEN Raise("ValidationError", "validation error for Explanation")
        ELSE Ok([summary |-> Get(explanation_data, "summary", ""),
                 detailed_explanation |->
                     Get(explanation_data, "detailed_explanation", <<>>),
                 root_cause |-> Get(explanation_data, "root_cause", ""),
                 fix_suggestions |-> fix_suggestions.val,
                 confidence |-> confidence,
                 related_errors |-> Get(explanation_data, "related_errors", None),
                 prevention_tips |-> Get(explanation_data, "related_errors", None)])

load_from_cache(cached_data) ==
    LET explanation_data == Get(cached_data, "explanation", <<>>)
        fix_suggestions == LoadFixes(Get(explanation_data, "fix_suggestions", <<>>), 1, <<>>)
        confidence == Get(explanation_data, "confidence", 5)
    IN  IF fix_suggestions.raised THEN fix_suggestions
        ELSE IF confidence < 0 \/ confidence > 10
             THEN Raise("ValidationError", "validation error for Explanation")
        ELSE Ok([summary |-> Get(explanation_data, "summary", ""),
                 detailed_explanation |->
                     Get(explanation_data, "detailed_explanation", <<>>),
                 root_cause |-> Get(explanation_data, "root_cause", ""),
                 fix_suggestions |-> fix_suggestions.val,
                 confidence |-> confidence,
                 related_errors |-> Get(explanation_data, "related_errors", None),
                 prevention_tips |-> Get(explanation_data, "prevention_tips", None)])

\* a variant of the store that keeps only the entry it writes
save_to_cache_alone(cache, cache_key, explanation, clock) ==
    LET cache_data ==
            [timestamp |-> isoformat(clock),
             explanation |->
                 [summary |-> explanation.summary,
                  detailed_explanation |-> explanation.detailed_explanation,
                  root_cause |-> explanation.root_cause,
                  fix_suggestions |->
                      [i \in 1..Len(explanation.fix_suggestions) |->
                          [description |-> explanation.fix_suggestions[i].description,
                           command |-> explanation.fix_suggestions[i].command,
                           explanation |-> explanation.fix_suggestions[i].explanation,
                           confidence |-> explanation.fix_suggestions[i].confidence]],
                  confidence |-> explanation.confidence,
                  related_errors |-> explanation.related_errors,
                  prevention_tips |-> explanation.prevention_tips]]
    IN  (cache_key :> cache_data)

\* a variant of the store that keeps the entry a key already has
save_to_cache_first(cache, cache_key, explanation, clock) ==
    LET cache_data ==
            [timestamp |-> isoformat(clock),
             explanation |->
                 [summary |-> explanation.summary,
                  detailed_explanation |-> explanation.detailed_explanation,
                  root_cause |-> explanation.root_cause,
                  fix_suggestions |->
                      [i \in 1..Len(explanation.fix_suggestions) |->
                          [description |-> explanation.fix_suggestions[i].description,
                           command |-> explanation.fix_suggestions[i].command,
                           explanation |-> explanation.fix_suggestions[i].explanation,
                           confidence |-> explanation.fix_suggestions[i].confidence]],
                  confidence |-> explanation.confidence,
                  related_errors |-> explanation.related_errors,
                  prevention_tips |-> explanation.prevention_tips]]
    IN  cache @@ (cache_key :> cache_data)

\* the cache after self.cache[cache_key] = cache_data
save_to_cache(cache, cache_key, explanation, clock) ==
    LET cache_data ==
            [timestamp |-> isoformat(clock),
             explanation |->
                 [summary |-> explanation.summary,
                  detailed_explanation |-> explanation.detailed_explanation,
                  root_cause |-> explanation.root_cause,
                  fix_suggestions |->
                      [i \in 1..Len(explanation.fix_suggestions) |->
                          [description |-> explanation.fix_suggestions[i].description,
                           command |-> explanation.fix_suggestions[i].command,
                           explanation |-> explanation.fix_suggestions[i].explanation,
                           confidence |-> explanation.fix_suggestions[i].confidence]],
                  confidence |-> explanation.confidence,
                  related_errors |-> explanation.related_errors,
                  prevention_tips |-> explanation.prevention_tips]]
    IN  (cache_key :> cache_data) @@ cache

----------------------------------------------------------------------------
(* ExplanationService.explain_command *)

\* a variant of explain_command that stores a result only if it is not the
\* degraded one (confidence above 0.2)
explain_command_genuine(svc, command_result, outcome, clock, latency) ==
    LET Out(res, c, n, cache_key) ==
            [raised |-> res.raised, cls |-> res.cls, msg |-> res.msg,
             val |-> res.val, cache |-> c, requests |-> n, cache_key |-> cache_key]
        Miss(explanation, cache_key) ==
            IF explanation.raised
            THEN Out(explanation, svc.cache, explanation.requests, cache_key)
            ELSE Out(explanation,
                     IF svc.cache_enabled /\ explanation.val.confidence > 2
                     THEN save_to_cache(svc.cache, cache_key, explanation.val,
                                        clock + latency)
                     ELSE svc.cache,
                     explanation.requests, cache_key)
        Lookup(valid, cache_key) ==
            IF valid.raised THEN Out(valid, svc.cache, 0, cache_key)
            ELSE IF valid.val
                 THEN Out(load_from_cache(svc.cache[cache_key]), svc.cache, 0,
                          cache_key)
            ELSE Miss(generate_explanation(command_result, outcome), cache_key)
        Keyed(cache_key) ==
            Lookup(IF svc.cache_enabled /\ cache_key \in DOMAIN svc.cache
                   THEN is_cache_valid(svc.cache[cache_key], svc.cache_ttl, clock)
                   ELSE Ok(FALSE),
                   cache_key)
    IN  Keyed(generate_cache_key(svc.seed, command_result))

\* a variant of explain_command that uses the cache whether or not it is
\* enabled
explain_command_always(svc, command_result, outcome, clock, latency) ==
    LET Out(res, c, n, cache_key) ==
            [raised |-> res.raised, cls |-> res.cls, msg |-> res.msg,
             val |-> res.val, cache |-> c, requests |-> n, cache_key |-> cache_key]
        Miss(explanation, cache_key) ==
            IF explanation.raised
            THEN Out(explanation, svc.cache, explanation.requests, cache_key)
            ELSE Out(explanation,
                     save_to_cache(svc.cache, cache_key, explanation.val,
                                   clock + latency),
                     explanation.requests, cache_key)
        Lookup(valid, cache_key) ==
            IF valid.raised THEN Out(valid, svc.cache, 0, cache_key)
            ELSE IF valid.val
                 THEN Out(load_from_cache(svc.cache[cache_key]), svc.cache, 0,
                          cache_key)
            ELSE Miss(generate_explanation(command_result, outcome), cache_key)
        Keyed(cache_key) ==
            Lookup(IF cache_key \in DOMAIN svc.cache
                   THEN is_cache_valid(svc.cache[cache_key], svc.cache_ttl, clock)
                   ELSE Ok(FALSE),
                   cache_key)
    IN  Keyed(generate_cache_key(svc.seed, command_result))

\* a variant of explain_command whose hit renews the timestamp of the
\* entry
explain_command_sliding(svc, command_result, outcome, clock, latency) ==
    LET Out(res, c, n, cache_key) ==
            [raised |-> res.raised, cls |-> res.cls, msg |-> res.msg,
             val |-> res.val, cache |-> c, requests |-> n, cache_key |-> cache_key]
        Miss(explanation, cache_key) ==
            IF explanation.raised
            THEN Out(explanation, svc.cache, explanation.requests, cache_key)
            ELSE Out(explanation,
                     IF svc.cache_enabled
                     THEN save_to_cache(svc.cache, cache_key, explanation.val,
                                        clock + latency)
                     ELSE svc.cache,
                     explanation.requests, cache_key)
        Lookup(valid, cache_key) ==
            IF valid.raised THEN Out(valid, svc.cache, 0, cache_key)
            ELSE IF valid.val
                 THEN Out(load_from_cache(svc.cache[cache_key]),
                          [svc.cache EXCEPT
                              ![cache_key].timestamp = isoformat(clock)],
                          0, cache_key)
            ELSE Miss(generate_explanation(command_result, outcome), cache_key)
        Keyed(cache_key) ==
            Lookup(IF svc.cache_enabled /\ cache_key \in DOMAIN svc.cache
                   THEN is_cache_valid(svc.cache[cache_key], svc.cache_ttl, clock)
                   ELSE Ok(FALSE),
                   cache_key)
    IN  Keyed(generate_cache_key(svc.seed, command_result))

\* svc is the service object: cache_enabled, cache_ttl, cache and the
\* interpreter's hash seed; clock is datetime.now() at the lookup and
\* clock + latency is datetime.now() at the store, after the completion call.
\* The result carries the cache the call leaves behind and the key it used.
explain_command(svc, command_result, outcome, clock, latency) ==
    LET Out(res, c, n, cache_key) ==
            [raised |-> res.raised, cls |-> res.cls, msg |-> res.msg,
             val |-> res.val, cache |-> c, requests |-> n, cache_key |-> cache_key]
        Miss(explanation, cache_key) ==
            IF explanation.raised
            THEN Out(explanation, svc.cache, explanation.requests, cache_key)
            ELSE Out(explanation,
                     IF svc.cache_enabled
                     THEN save_to_cache(svc.cache, cache_key, explanation.val,
                                        clock + latency)
                     ELSE svc.cache,
                     explanation.requests, cache_key)
        Lookup(valid, cache_key) ==
            IF valid.raised THEN Out(valid, svc.cache, 0, cache_key)
            ELSE IF valid.val
                 THEN Out(load_from_cache(svc.cache[cache_key]), svc.cache, 0,
                          cache_key)
            ELSE Miss(generate_explanation(command_result, outcome), cache_key)
        Keyed(cache_key) ==
            Lookup(IF svc.cache_enabled /\ cache_key \in DOMAIN svc.cache
                   THEN is_cache_valid(svc.cache[cache_key], svc.cache_ttl, clock)
                   ELSE Ok(FALSE),
                   cache_key)
    IN  Keyed(generate_cache_key(svc.seed, command_result))

\* a variant of the loop that ends at the first degraded result
RECURSIVE ExplainEachUntilDegraded(_, _, _, _, _)
ExplainEachUntilDegraded(svc, command_results, outcomes, latency, acc) ==
    IF \/ acc.raised
       \/ Len(acc.calls) = Len(command_results)
       \/ \E i \in 1..Len(acc.val) : acc.val[i].confidence <= 2
    THEN acc
    ELSE LET Called(res, command_result) ==
                 IF res.raised
                 THEN [acc EXCEPT !.raised = TRUE, !.cls = res.cls, !.msg = res.msg,
                                  !.calls = Append(@, [rec |-> command_result,
                                                       requests |-> res.requests])]
                 ELSE [acc EXCEPT !.val = Append(@, res.val),
                                  !.cache = res.cache,
                                  !.requests = @ + res.requests,
                                  !.clock = @ + res.requests * latency,
                                  !.calls = Append(@, [rec |-> command_result,
                                                       requests |-> res.requests])]
             Each(i) ==
                 Called(explain_command([svc EXCEPT !.cache = acc.cache],
                                        command_results[i], outcomes[i],
                                        acc.clock, latency),
                        command_results[i])
         IN  ExplainEachUntilDegraded(svc, command_results, outcomes, latency,
                                      Each(Len(acc.calls) + 1))

\* the loop of explain_multiple_commands: acc holds the explanations
\* appended so far, the cache and the clock after them, the number of
\* completion requests, and for each explain_command call its record and
\* its requests; an exception of explain_command ends the loop
RECURSIVE ExplainEach(_, _, _, _, _)
ExplainEach(svc, command_results, outcomes, latency, acc) ==
    IF acc.raised \/ Len(acc.calls) = Len(command_results) THEN acc
    ELSE LET Called(res, command_result) ==
                 IF res.raised
                 THEN [acc EXCEPT !.raised = TRUE, !.cls = res.cls, !.msg = res.msg,
                                  !.calls = Append(@, [rec |-> command_result,
                                                       requests |-> res.requests])]
                 ELSE [acc EXCEPT !.val = Append(@, res.val),
                                  !.cache = res.cache,
                                  !.requests = @ + res.requests,
                                  !.clock = @ + res.requests * latency,
                                  !.calls = Append(@, [rec |-> command_result,
                                                       requests |-> res.requests])]
             Each(i) ==
                 Called(explain_command([svc EXCEPT !.cache = acc.cache],
                                        command_results[i], outcomes[i],
                                        acc.clock, latency),
                        command_results[i])
         IN  ExplainEach(svc, command_results, outcomes, latency,
                         Each(Len(acc.calls) + 1))

\* outcomes[i] is what the completion call does if the i-th explain_command
\* makes one; each completion call takes latency ticks
explain_multiple_commands(svc, command_results, outcomes, clock, latency) ==
    ExplainEach(svc, command_results, outcomes, latency,
                [raised |-> FALSE, cls |-> "", msg |-> "", val |-> <<>>,
                 cache |-> svc.cache, requests |-> 0, calls |-> <<>>,
                 clock |-> clock])

\* self.cache.clear()
clear_cache(cache) == <<>>

\* a variant of the statistics that counts every entry as valid
get_cache_stats_all(svc, clock) ==
    Ok([cache_enabled |-> svc.cache_enabled,
        cache_size |-> Cardinality(DOMAIN svc.cache),
        cache_ttl |-> svc.cache_ttl,
        valid_entries |-> Cardinality(DOMAIN svc.cache)])

\* ExplanationService.get_cache_stats: an exception of _is_cache_valid on an
\* entry leaves the sum and the call
get_cache_stats(svc, clock) ==
    LET Valid(k) == is_cache_valid(svc.cache[k], svc.cache_ttl, clock)
    IN  IF \E k \in DOMAIN svc.cache : Valid(k).raised
        THEN Valid(CHOOSE k \in DOMAIN svc.cache : Valid(k).raised)
        ELSE Ok([cache_enabled |-> svc.cache_enabled,
                 cache_size |-> Cardinality(DOMAIN svc.cache),
                 cache_ttl |-> svc.cache_ttl,
                 valid_entries |->
                     Cardinality({k \in DOMAIN svc.cache : Valid(k).val})])

----------------------------------------------------------------------------
(* The state *)

VARIABLES
    cache_enabled,  \* ExplanationService.cache_enabled
    cache_ttl,      \* ExplanationService.cache_ttl, in seconds
    cache,          \* ExplanationService.cache: key -> cache_data
    hash_seed,      \* the interpreter's hash seed
    now,            \* the wall clock, in ticks
    ret,            \* the last call: its arguments, the outcome of the
                    \* completion call if it made one, and its result
    explains,       \* number of explain_command calls so far
    requests,       \* number of completion requests so far
    hist,           \* triple -> the last explanation the client produced for
                    \* it, with the cache enabled, since the cache was last
                    \* cleared, and the tick at which the call returned
    stamp,          \* key -> the tick at which its entry was stored
    p_outcome,      \* an outcome of the completion call
    p_parse,        \* what _parse_response does with it
    p_gen,          \* what generate_explanation does with it
    p_trip,         \* the Explanation of p_gen stored and loaded again
    p_explain,      \* what explain_command does with it, from some cache
    p_json,         \* the text _parse_response gave to json.loads, if any
    threads,        \* two explain_command calls in progress on one service,
                    \* and the order in which they stored
    alias,          \* the list objects that an Explanation held by a caller
                    \* and a cache entry refer to
    k_in,           \* two failure records and a hash seed
    k_out,          \* their cache keys, and what explaining one after the
                    \* other does
    c_env,          \* the environment variable OPENAI_API_KEY
    c_built,        \* the last construction of a client or of a service
    m_ret,          \* the last explain_multiple_commands call: its arguments,
                    \* the outcome of each completion call it could make,
                    \* and its result
    q_in,           \* a call of a function of the models or of
                    \* CommandCapture: its name and its argument
    q_out           \* what the call returned

vars == <<cache_enabled, cache_ttl, cache, hash_seed, now, ret, explains,
          requests, hist, stamp, p_outcome, p_parse, p_gen, p_trip, p_explain, p_json, threads, alias,
          k_in, k_out, c_env, c_built, m_ret, q_in, q_out>>

svc_vars == <<cache_enabled, cache_ttl, cache, hash_seed, now, ret, explains,
              requests, hist, stamp>>

c_vars == <<c_env, c_built, m_ret>>

q_vars == <<q_in, q_out>>

p_vars == <<p_outcome, p_parse, p_gen, p_trip, p_explain, p_json, threads, alias,
            k_in, k_out, c_env, c_built,
            m_ret, q_in, q_out>>

NoOutcome == [kind |-> "none", cls |-> "", msg |-> "", content |-> None]
NoRecord == CommandResult(<<"", "", 0>>, CHOOSE c \in Contexts : c.timestamp = 0)

NoCall ==
    [op |-> "none", rec |-> NoRecord, outcome |-> NoOutcome, key |-> "",
     raised |-> FALSE, cls |-> "", val |-> NoExplanation, requests |-> 0,
     again |-> FALSE, age |-> None]

Unset == [done |-> FALSE, raised |-> FALSE, cls |-> "", val |-> NoExplanation]
Done(res) == [done |-> TRUE, raised |-> res.raised, cls |-> res.cls, val |-> res.val]

\* a short reply that parses
GoodReply ==
    <<Raw("Here is the analysis:")>>
    \o ObjT(<<KV("summary", StrT("Package not found")),
              KV("fix_suggestions", ArrT(<<FixC, FixB>>)),
              KV("confidence", NumT("0.8"))>>)

\* the outcomes the service is driven with: a reply that parses, a reply
\* whose mapping raises a TypeError and a failed call
ServiceOutcomes ==
    {Reply(Some(GoodReply)),
     Reply(Some(ObjT(<<KV("confidence", NumT("null"))>>))),
     Raises("APITimeoutError", "Request timed out.")}

\* the records the service is driven with: two records of one triple that
\* differ in every other field, and a record of another triple
ServiceRecords ==
    {r \in Records :
        \/ Triple(r) = <<"npm install missing-package", "npm ERR! code E404", 1>>
        \/ /\ Triple(r) = <<"npm install missing-package", "npm ERR! code ENOENT", 1>>
           /\ r.timestamp = 0}

ServiceTriples == {Triple(r) : r \in ServiceRecords}

Seeds == {0, 1, 2}

TTLs == (0 - 1)..MaxTTL

SvcInit ==
    /\ cache_enabled \in BOOLEAN
    /\ cache_ttl \in (IF cache_enabled THEN TTLs ELSE {MaxTTL})
    /\ cache = <<>>
    /\ hash_seed = 0
    /\ now = 0
    /\ ret = NoCall
    /\ explains = 0
    /\ requests = 0
    /\ hist = [k \in ServiceTriples |-> None]
    /\ stamp = <<>>

NoKeys == [done |-> FALSE, key1 |-> "", key2 |-> "", requests |-> 0, entries |-> 0]

\* the service freshly built with its defaults, never called
SvcIdle ==
    /\ cache_enabled = TRUE
    /\ cache_ttl = MaxTTL
    /\ cache = <<>>
    /\ hash_seed = 0
    /\ now = 0
    /\ ret = NoCall
    /\ explains = 0
    /\ requests = 0
    /\ hist = [k \in ServiceTriples |-> None]
    /\ stamp = <<>>

NoResult == [done |-> FALSE, val |-> <<>>]

\* no explain_command in progress
NoThreads == [procs |-> <<>>, stores |-> <<>>]

\* no Explanation handed out
NoAlias == [phase |-> "idle"]

PIdle ==
    /\ p_outcome = NoOutcome
    /\ p_parse = Unset
    /\ p_gen = Unset
    /\ p_trip = Unset
    /\ p_explain = Unset
    /\ p_json = NoResult
    /\ threads = NoThreads
    /\ alias = NoAlias

KIdle ==
    /\ k_in = [r1 |-> NoRecord, r2 |-> NoRecord, seed |-> 0]
    /\ k_out = NoKeys

\* the service was built with a key in the environment
CIdle ==
    /\ c_env = Some("sk-env")
    /\ c_built = Built("service", service_init(TRUE, MaxTTL, Some("sk-env")),
                       None, Some("sk-env"), FALSE)

NoBatch ==
    [done |-> FALSE, recs |-> <<>>, outcomes |-> <<>>, raised |-> FALSE,
     vals |-> <<>>, calls |-> <<>>, before |-> <<>>]

MIdle == m_ret = NoBatch

QIdle ==
    /\ q_in = [fn |-> "none", arg |-> <<>>]
    /\ q_out = NoResult

Init == SvcInit /\ PIdle /\ KIdle /\ CIdle /\ MIdle /\ QIdle

----------------------------------------------------------------------------
(* The operations of the service *)

Explain(r, o, d) ==
    /\ explains < MaxExplains
    /\ now + d <= MaxTime
    /\ \E res \in {explain_command([cache_enabled |-> cache_enabled,
                                    cache_ttl |-> cache_ttl, cache |-> cache,
                                    seed |-> hash_seed], r, o, now, d)} :
       LET key == res.cache_key
       IN  /\ cache' = res.cache
           /\ ret' = [op |-> "explain", rec |-> r, outcome |-> IF res.requests > 0 THEN o ELSE NoOutcome,
                      key |-> key,
                      raised |-> res.raised, cls |-> res.cls, val |-> res.val,
                      requests |-> res.requests,
                      again |-> ret.op = "explain" /\ ret.rec = r,
                      age |-> IF key \in DOMAIN stamp
                              THEN Some(now - stamp[key]) ELSE None]
           /\ requests' = requests + res.requests
           /\ hist' = IF cache_enabled /\ res.requests > 0 /\ ~res.raised
                      THEN [hist EXCEPT ![Triple(r)] = Some([t |-> now + d, e |-> res.val])]
                      ELSE hist
           /\ stamp' = IF res.cache # cache THEN (key :> (now + d)) @@ stamp
                       ELSE stamp
    /\ explains' = explains + 1
    /\ now' = now + d
    /\ UNCHANGED <<cache_enabled, cache_ttl, hash_seed>>
    /\ UNCHANGED p_vars

Tick ==
    /\ now < MaxTime
    /\ now' = now + 1
    /\ UNCHANGED <<cache_enabled, cache_ttl, cache, hash_seed, ret, explains,
                   requests, hist, stamp>>
    /\ UNCHANGED p_vars

ClearCache ==
    /\ cache # <<>>
    /\ cache' = clear_cache(cache)
    /\ ret' = [NoCall EXCEPT !.op = "clear"]
    /\ hist' = [k \in ServiceTriples |-> None]
    /\ stamp' = <<>>
    /\ UNCHANGED <<cache_enabled, cache_ttl, hash_seed, now, explains, requests>>
    /\ UNCHANGED p_vars

Next ==
    \/ \E r \in ServiceRecords, o \in ServiceOutcomes, d \in 0..1 : Explain(r, o, d)
    \/ Tick
    \/ ClearCache

Spec == Init /\ [][Next]_vars

----------------------------------------------------------------------------
(* The client and the cache functions, applied to every outcome *)

\* the record the outcomes are explained for
ParseRecord ==
    CHOOSE r \in ServiceRecords :
        /\ Triple(r) = <<"npm install missing-package", "npm ERR! code E404", 1>>
        /\ r.timestamp = 0

ParseInit ==
    /\ SvcIdle
    /\ KIdle
    /\ CIdle
    /\ MIdle
    /\ QIdle
    /\ p_outcome \in Outcomes
    /\ p_parse = Unset
    /\ p_gen = Unset
    /\ p_trip = Unset
    /\ p_explain = Unset
    /\ p_json = NoResult
    /\ threads = NoThreads
    /\ alias = NoAlias

ParseStep ==
    /\ p_outcome.kind = "reply"
    /\ ~p_parse.done
    /\ p_parse' = Done(parse_response(p_outcome.content, ParseRecord))
    /\ p_json' = [done |-> TRUE, val |-> json_str(p_outcome.content)]
    /\ UNCHANGED <<p_outcome, p_gen, p_trip, p_explain, threads, alias, k_in, k_out>>
    /\ UNCHANGED svc_vars
    /\ UNCHANGED c_vars
    /\ UNCHANGED q_vars

GenerateStep ==
    /\ ~p_gen.done
    /\ p_gen' = Done(generate_explanation(ParseRecord, p_outcome))
    /\ UNCHANGED <<p_outcome, p_parse, p_trip, p_explain, p_json, threads, alias, k_in, k_out>>
    /\ UNCHANGED svc_vars
    /\ UNCHANGED c_vars
    /\ UNCHANGED q_vars

\* _save_to_cache at tick t, then _load_from_cache of the entry while it is
\* valid, at tick u
RoundTripStep(t, u) ==
    /\ p_gen.done
    /\ ~p_gen.raised
    /\ ~p_trip.done
    /\ t <= u
    /\ \E key \in {generate_cache_key(hash_seed, ParseRecord)} :
       \E stored \in {save_to_cache(cache, key, p_gen.val, t)} :
       \E valid \in {is_cache_valid(stored[key], cache_ttl, u)} :
           /\ ~valid.raised
           /\ valid.val
           /\ p_trip' = Done(load_from_cache(stored[key]))
    /\ UNCHANGED <<p_outcome, p_parse, p_gen, p_explain, p_json, threads, alias, k_in, k_out>>
    /\ UNCHANGED svc_vars
    /\ UNCHANGED c_vars
    /\ UNCHANGED q_vars

\* the completion call that fills the cache of ExplainStep
ExplainFirst == Raises("APITimeoutError", "Request timed out.")

\* explain_command at tick u, the cache being disabled, empty, or holding
\* for the record's key the result of a timed-out call stored at tick 0
ExplainStep(enabled, filled, u) ==
    /\ ~p_explain.done
    /\ \E svc \in {[cache_enabled |-> enabled, cache_ttl |-> cache_ttl,
                     cache |-> cache, seed |-> hash_seed]} :
       \E first \in {explain_command(svc, ParseRecord, ExplainFirst, 0, 0)} :
           p_explain' = Done(explain_command(
                                 IF filled THEN [svc EXCEPT !.cache = first.cache]
                                 ELSE svc,
                                 ParseRecord, p_outcome, u, 0))
    /\ UNCHANGED <<p_outcome, p_parse, p_gen, p_trip, p_json, threads, alias, k_in, k_out>>
    /\ UNCHANGED svc_vars
    /\ UNCHANGED c_vars
    /\ UNCHANGED q_vars

ParseNext ==
    \/ ParseStep
    \/ GenerateStep
    \/ \E t \in 0..MaxTime, u \in 0..MaxTime : RoundTripStep(t, u)
    \/ \E enabled \in BOOLEAN, filled \in BOOLEAN, u \in 0..MaxTime :
           ExplainStep(enabled, filled, u)

SpecParse == ParseInit /\ [][ParseNext]_vars

----------------------------------------------------------------------------
(* The cache key, applied to every pair of records *)

KeyInit ==
    /\ SvcIdle
    /\ PIdle
    /\ CIdle
    /\ MIdle
    /\ QIdle
    /\ k_in \in [r1 : Records, r2 : Records, seed : Seeds]
    /\ k_out = NoKeys

\* the completion call of KeyStep
KeyReply == Reply(Some(GoodReply))

\* explain_command for r1 and then, at the same tick, for r2, the cache
\* being enabled and empty at first
KeyStep ==
    /\ ~k_out.done
    /\ \E svc \in {[cache_enabled |-> TRUE, cache_ttl |-> cache_ttl,
                     cache |-> cache, seed |-> k_in.seed]} :
       \E first \in {explain_command(svc, k_in.r1, KeyReply, now, 0)} :
       \E second \in {explain_command([svc EXCEPT !.cache = first.cache],
                                      k_in.r2, KeyReply, now, 0)} :
           k_out' = [done |-> TRUE,
                     key1 |-> first.cache_key,
                     key2 |-> second.cache_key,
                     requests |-> second.requests,
                     entries |-> Cardinality(DOMAIN second.cache)]
    /\ UNCHANGED <<p_outcome, p_parse, p_gen, p_trip, p_explain, p_json, threads, alias, k_in>>
    /\ UNCHANGED svc_vars
    /\ UNCHANGED c_vars
    /\ UNCHANGED q_vars

KeyNext == KeyStep

SpecKey == KeyInit /\ [][KeyNext]_vars

----------------------------------------------------------------------------
(* Properties of the client: the fallback *)

\* the fixed fallback, detailed_explanation apart
FallbackFix ==
    [description |-> "Check the command syntax and try again",
     command |-> None,
     explanation |-> "The command may have syntax errors or missing dependencies",
     confidence |-> 3]

IsFallback(e) ==
    /\ DOMAIN e = {"summary", "detailed_explanation", "root_cause",
                   "fix_suggestions", "confidence", "related_errors",
                   "prevention_tips"}
    /\ e.summary = "Unable to generate detailed analysis"
    /\ e.root_cause = "Analysis failed due to response parsing error"
    /\ e.fix_suggestions = <<FallbackFix>>
    /\ e.confidence = 2
    /\ e.related_errors = Some(<<"Command parsing error", "AI service unavailable">>)
    /\ e.prevention_tips = Some(<<"Verify command syntax", "Check dependencies",
                                  "Try running with verbose flags">>)

\* text d contains text t verbatim
Embeds(d, t) ==
    \E i \in 1..(Len(d) + 1) :
        /\ i + Len(t) - 1 <= Len(d)
        /\ SubSeq(d, i, i + Len(t) - 1) = t

\* an Explanation as the models define it: the seven fields, every
\* confidence within [0, 1]
WellFormed(e) ==
    /\ DOMAIN e = {"summary", "detailed_explanation", "root_cause",
                   "fix_suggestions", "confidence", "related_errors",
                   "prevention_tips"}
    /\ e.confidence \in 0..10
    /\ \A i \in 1..Len(e.fix_suggestions) :
           /\ DOMAIN e.fix_suggestions[i] =
                  {"description", "command", "explanation", "confidence"}
           /\ e.fix_suggestions[i].confidence \in 0..10
           /\ Len(e.fix_suggestions[i].command) <= 1
    /\ Len(e.related_errors) <= 1
    /\ Len(e.prevention_tips) <= 1

\* the positions of the braces of a text
Opens(text) == {i \in 1..Len(text) : text[i] = LB}
Closes(text) == {i \in 1..Len(text) : text[i] = RB}

\* the text from the first '{' to the last '}', both included
Braced(text) ==
    SubSeq(text,
           CHOOSE i \in Opens(text) : \A j \in Opens(text) : i <= j,
           CHOOSE i \in Closes(text) : \A j \in Closes(text) : i >= j)

C2_FailureFallback ==
    (p_gen.done /\ p_outcome.kind = "raise") =>
        /\ ~p_gen.raised
        /\ IsFallback(p_gen.val)
        /\ Embeds(p_gen.val.detailed_explanation, Text(p_outcome.msg))

\* generate_explanation has returned after a timeout of the completion call
C2_Witness ==
    /\ p_gen.done
    /\ p_outcome = Raises("APITimeoutError", "Request timed out.")

\* C8: an Explanation the client produced, stored by _save_to_cache and read
\* back by _load_from_cache while the entry is valid, is equal to the
\* original in every field.
C8_RoundTrip ==
    p_trip.done => ~p_trip.raised /\ p_trip.val = p_gen.val

\* an Explanation with a fix of absent command and with absent
\* related_errors and prevention_tips made the round trip
C8_Witness ==
    /\ p_trip.done
    /\ p_gen.val.related_errors = None
    /\ p_gen.val.prevention_tips = None
    /\ \E i \in 1..Len(p_gen.val.fix_suggestions) :
           p_gen.val.fix_suggestions[i].command = None

\* C9: for a reply text without '{', _parse_response returns the fixed
\* fallback with its literal values, and detailed_explanation embeds the
\* reply text verbatim.
C9_NoBraces ==
    (p_parse.done /\ p_outcome.content # None /\ Opens(p_outcome.content[1]) = {}) =>
        /\ ~p_parse.raised
        /\ IsFallback(p_parse.val)
        /\ Embeds(p_parse.val.detailed_explanation, p_outcome.content[1])

\* _parse_response has returned for a reply with a '}' and no '{'
C9_Witness ==
    /\ p_parse.done
    /\ p_outcome.content # None
    /\ Opens(p_outcome.content[1]) = {}
    /\ Closes(p_outcome.content[1]) # {}
    /\ Len(p_outcome.content[1]) >= 2

\* the reply has a '{' and a later '}' and the text between the first '{'
\* and the last '}' is not valid JSON
MalformedJson(content) ==
    /\ content # None
    /\ \E i \in Opens(content[1]), j \in Closes(content[1]) : i < j
    /\ JsonLoads(Braced(content[1])).raised

\* C10: for a reply text with a '{' and a later '}' whose text from the
\* first '{' to the last '}' is not valid JSON, _parse_response returns the
\* same fixed fallback, detailed_explanation embedding the whole reply.
C10_MalformedJson ==
    (p_parse.done /\ MalformedJson(p_outcome.content)) =>
        /\ ~p_parse.raised
        /\ IsFallback(p_parse.val)
        /\ Embeds(p_parse.val.detailed_explanation, p_outcome.content[1])

\* _parse_response has returned for a malformed object with prose before it
C10_Witness ==
    /\ p_parse.done
    /\ MalformedJson(p_outcome.content)
    /\ p_outcome.content[1][1] = Raw("Here is the analysis:")
    /\ Len(Braced(p_outcome.content[1])) > 2

----------------------------------------------------------------------------
(* Properties of the service: the cache *)

\* the step is an explain_command call
ExplainCall == ret'.op = "explain" /\ explains' = explains + 1

\* the number of ticks in the TTL
TTLTicks == cache_ttl * TicksPerSecond

\* the triple of the record of the call, and what the client last produced
\* for it
CallTriple == Triple(ret'.rec)
Stored == hist[CallTriple][1]

\* C3: with the cache enabled, an explain_command for a record whose triple
\* (command text, stderr, exit code) was explained by the client less than
\* the TTL ago returns the Explanation of that call and makes no completion
\* request, whatever was explained for other triples since.
C3_HitWithinTTL ==
    [][(ExplainCall /\ cache_enabled /\ hist[CallTriple] # None
            /\ now - Stored.t < TTLTicks)
        => (requests' = requests /\ ~ret'.raised /\ ret'.val = Stored.e)]_vars

\* a triple was explained, then another one, then the first again from the
\* cache
C3_Witness ==
    /\ cache_enabled
    /\ ret.op = "explain"
    /\ ret.requests = 0
    /\ explains = 3
    /\ requests = 2
    /\ \E k \in ServiceTriples :
           /\ k # Triple(ret.rec)
           /\ hist[k] # None
           /\ hist[k][1].t > hist[Triple(ret.rec)][1].t

\* the degraded result of a failed completion call
Degraded(e) ==
    /\ e.confidence = 2
    /\ e.summary = "Unable to generate detailed analysis"
    /\ Len(e.fix_suggestions) = 1

\* C4: with the cache enabled, an explain_command that misses and whose
\* completion call fails leaves under the record's key an entry holding the
\* fallback (confidence 0.2, the fallback summary, one fix suggestion), and an
\* explain_command for a triple whose fallback was stored less than the TTL
\* ago returns that fallback without a completion request, whatever the
\* client would answer now.
C4_FallbackCached ==
    [][(ExplainCall /\ cache_enabled) =>
          /\ (ret'.requests = 1 /\ ret'.outcome.kind = "raise") =>
                 /\ Degraded(ret'.val)
                 /\ ret'.key \in DOMAIN cache'
                 /\ Degraded(cache'[ret'.key].explanation)
                 /\ cache'[ret'.key].explanation.detailed_explanation
                        = ret'.val.detailed_explanation
          /\ (hist[CallTriple] # None /\ Degraded(Stored.e)
                  /\ now - Stored.t < TTLTicks) =>
                 /\ requests' = requests
                 /\ ret'.val = Stored.e]_vars

\* a fallback was returned from the cache some time after it was stored
C4_Witness ==
    /\ cache_enabled
    /\ ret.op = "explain"
    /\ ret.requests = 0
    /\ Degraded(ret.val)
    /\ ret.age # None
    /\ ret.age[1] >= 1

\* C5: with the cache disabled every explain_command makes exactly one
\* completion request, so n calls make n requests.
C5_DisabledAlwaysCalls ==
    ~cache_enabled =>
        /\ requests = explains
        /\ ret.op = "explain" => ret.requests = 1

\* three calls, the last one for the record of the call before it
C5_Witness ==
    /\ ~cache_enabled
    /\ explains = 3
    /\ requests = 3
    /\ ret.again

\* C6: with the cache enabled, a lookup of a stored entry is a hit exactly
\* when the entry's age at the lookup is less than the TTL; at an age equal
\* to the TTL or larger it is a miss.
C6_TTLBoundary ==
    (cache_enabled /\ ret.op = "explain" /\ ret.age # None) =>
        (ret.requests = 0 <=> ret.age[1] < TTLTicks)

\* a lookup of an entry whose age is exactly a positive TTL missed
C6_Witness ==
    /\ cache_enabled
    /\ cache_ttl > 0
    /\ ret.op = "explain"
    /\ ret.age = Some(TTLTicks)
    /\ ret.requests = 1

----------------------------------------------------------------------------
(* Properties of the cache key *)

\* C7: two records with the same command text, stderr and exit code get the
\* same key, whatever their other fields, and share one cache entry: the
\* second is answered from the entry of the first.
C7_KeyDeterminism ==
    (k_out.done /\ Triple(k_in.r1) = Triple(k_in.r2)) =>
        /\ k_out.key1 = k_out.key2
        /\ k_out.requests = 0
        /\ k_out.entries = 1

\* two records of one triple that differ in working directory, shell,
\* stdout, timestamp and execution time
C7_Witness ==
    /\ k_out.done
    /\ Triple(k_in.r1) = Triple(k_in.r2)
    /\ k_in.r1.working_directory # k_in.r2.working_directory
    /\ k_in.r1.shell # k_in.r2.shell
    /\ k_in.r1.stdout # k_in.r2.stdout
    /\ k_in.r1.timestamp # k_in.r2.timestamp
    /\ k_in.r1.execution_time # k_in.r2.execution_time

----------------------------------------------------------------------------
(* Properties of the client: the mapping of a decoded reply *)

\* the value of key k of the decoded object d, or the default
Field(d, k, default) == IF k \in DOMAIN d THEN d[k] ELSE default

\* a decoded fix suggestion whose present fields have the types of the reply
\* format
ConformingFix(f) ==
    /\ f.t = "dict"
    /\ Field(f.d, "description", JStr("")).t = "str"
    /\ Field(f.d, "command", JNull).t \in {"str", "null"}
    /\ Field(f.d, "explanation", JStr("")).t = "str"
    /\ Field(f.d, "confidence", JNum(5)).t = "num"
    /\ Field(f.d, "confidence", JNum(5)).n \in 0..10

IsStrings(v) == v.t = "list" /\ \A i \in 1..Len(v.xs) : v.xs[i].t = "str"

\* a decoded object whose present fields have the types of the reply format
Conforming(d) ==
    /\ Field(d, "summary", JStr("")).t = "str"
    /\ Field(d, "detailed_explanation", JStr("")).t = "str"
    /\ Field(d, "root_cause", JStr("")).t = "str"
    /\ Field(d, "fix_suggestions", JList(<<>>)).t = "list"
    /\ \A i \in 1..Len(Field(d, "fix_suggestions", JList(<<>>)).xs) :
           ConformingFix(Field(d, "fix_suggestions", JList(<<>>)).xs[i])
    /\ Field(d, "confidence", JNum(5)).t = "num"
    /\ Field(d, "confidence", JNum(5)).n \in 0..10
    /\ Field(d, "related_errors", JNull).t = "null"
           \/ IsStrings(Field(d, "related_errors", JNull))
    /\ Field(d, "prevention_tips", JNull).t = "null"
           \/ IsStrings(Field(d, "prevention_tips", JNull))

Strings(v) == IF v.t = "null" THEN None ELSE Some([i \in 1..Len(v.xs) |-> v.xs[i].s])

\* the fix suggestion a conforming decoded fix stands for
FixOf(f) ==
    [description |-> Field(f.d, "description", JStr("")).s,
     command |-> IF Field(f.d, "command", JNull).t = "null" THEN None
                 ELSE Some(f.d["command"].s),
     explanation |-> Field(f.d, "explanation", JStr("")).s,
     confidence |-> Field(f.d, "confidence", JNum(5)).n]

\* the Explanation a conforming decoded object stands for
ExplanationOf(d) ==
    [summary |-> Field(d, "summary", JStr("Error analysis")).s,
     detailed_explanation |-> Text(Field(d, "detailed_explanation", JStr("")).s),
     root_cause |-> Field(d, "root_cause", JStr("")).s,
     fix_suggestions |->
         [i \in 1..Len(Field(d, "fix_suggestions", JList(<<>>)).xs) |->
             FixOf(Field(d, "fix_suggestions", JList(<<>>)).xs[i])],
     confidence |-> Field(d, "confidence", JNum(5)).n,
     related_errors |-> Strings(Field(d, "related_errors", JNull)),
     prevention_tips |-> Strings(Field(d, "prevention_tips", JNull))]

\* the reply has a '{' and a later '}', and the text from the first '{' to
\* the last '}' is one JSON object
HasObject(content) ==
    /\ content # None
    /\ \E i \in Opens(content[1]), j \in Closes(content[1]) : i < j
    /\ ~JsonLoads(Braced(content[1])).raised

Decoded(content) == JsonLoads(Braced(content[1])).val.d

----------------------------------------------------------------------------
(* Properties of the models *)

\* the confidences of an Explanation and of its fixes, in tenths, lie in
\* [0, 1]
InRange(e) ==
    /\ e.confidence >= 0
    /\ e.confidence <= 10
    /\ \A i \in 1..Len(e.fix_suggestions) :
           /\ e.fix_suggestions[i].confidence >= 0
           /\ e.fix_suggestions[i].confidence <= 10

\* C12: every Explanation that _parse_response, generate_explanation or
\* explain_command returns, and every Explanation read back from the cache,
\* has its confidence and the confidence of each of its fixes in [0, 1],
\* whatever confidences the reply carries.
C12_ConfidenceRange ==
    /\ (p_parse.done /\ ~p_parse.raised) => InRange(p_parse.val)
    /\ (p_gen.done /\ ~p_gen.raised) => InRange(p_gen.val)
    /\ (p_trip.done /\ ~p_trip.raised) => InRange(p_trip.val)
    /\ (p_explain.done /\ ~p_explain.raised) => InRange(p_explain.val)

\* explain_command has returned for a reply whose object carries an overall
\* confidence above 1
C12_Witness ==
    /\ p_explain.done
    /\ p_parse.done
    /\ HasObject(p_outcome.content)
    /\ "confidence" \in DOMAIN Decoded(p_outcome.content)
    /\ Decoded(p_outcome.content)["confidence"].t = "num"
    /\ Decoded(p_outcome.content)["confidence"].n > 10
    /\ p_explain.val.detailed_explanation = p_parse.val.detailed_explanation

----------------------------------------------------------------------------
(* Construction of the client and of the service, then their use *)

\* values of OPENAI_API_KEY: unset, empty, set
EnvValues == {None, Some(""), Some("sk-env")}

\* values of the api_key argument
KeyArguments == {None, Some(""), Some("sk-arg")}

NotBuilt ==
    [kind |-> "none", obj |-> "none", cls |-> "", api_key |-> None,
     arg |-> None, env |-> None, failed_before |-> FALSE]

\* the completion call of a built client: a reply, or the API's refusal of
\* the key
BuildOutcomes ==
    {Reply(Some(GoodReply)), Raises("AuthenticationError", "Error code: 401")}

BuildInit ==
    /\ SvcIdle
    /\ PIdle
    /\ KIdle
    /\ c_env \in EnvValues
    /\ c_built = NotBuilt
    /\ MIdle
    /\ QIdle

\* os.environ["OPENAI_API_KEY"] is set, emptied or unset
SetEnv(v) ==
    /\ v # c_env
    /\ c_env' = v
    /\ UNCHANGED <<c_built, m_ret, p_outcome, p_parse, p_gen, p_trip, p_explain, p_json, threads, alias, k_in, k_out>>
    /\ UNCHANGED q_vars
    /\ UNCHANGED svc_vars

\* OpenAIClient(api_key)
ConstructClient(api_key) ==
    /\ c_built.kind \in {"none", "failed"}
    /\ c_built' = Built("client", client_init(api_key, c_env), api_key, c_env,
                        c_built.kind = "failed")
    /\ UNCHANGED <<c_env, m_ret, p_outcome, p_parse, p_gen, p_trip, p_explain, p_json, threads, alias, k_in, k_out>>
    /\ UNCHANGED q_vars
    /\ UNCHANGED svc_vars

\* ExplanationService(cache_enabled, cache_ttl)
ConstructService(enabled, ttl) ==
    /\ c_built.kind \in {"none", "failed"}
    /\ \E res \in {service_init(enabled, ttl, c_env)} :
           /\ c_built' = Built("service", res, None, c_env, c_built.kind = "failed")
           /\ IF res.raised
              THEN UNCHANGED <<cache_enabled, cache_ttl, cache>>
              ELSE /\ cache_enabled' = enabled
                   /\ cache_ttl' = ttl
                   /\ cache' = <<>>
    /\ UNCHANGED <<hash_seed, now, ret, explains, requests, hist, stamp>>
    /\ UNCHANGED <<c_env, m_ret, p_outcome, p_parse, p_gen, p_trip, p_explain, p_json, threads, alias, k_in, k_out>>
    /\ UNCHANGED q_vars

\* explain_command of the built service
BuildExplain(r, o) ==
    /\ c_built.kind = "service"
    /\ Explain(r, o, 0)

\* generate_explanation of the built client
BuildGenerate(o) ==
    /\ c_built.kind = "client"
    /\ explains < MaxExplains
    /\ \E res \in {generate_explanation(ParseRecord, o)} :
           /\ ret' = [NoCall EXCEPT !.op = "generate", !.rec = ParseRecord,
                                    !.outcome = o, !.raised = res.raised,
                                    !.cls = res.cls, !.val = res.val,
                                    !.requests = res.requests]
           /\ requests' = requests + res.requests
    /\ explains' = explains + 1
    /\ UNCHANGED <<cache_enabled, cache_ttl, cache, hash_seed, now, hist, stamp>>
    /\ UNCHANGED p_vars

BuildNext ==
    \/ \E v \in EnvValues : SetEnv(v)
    \/ \E api_key \in KeyArguments : ConstructClient(api_key)
    \/ \E enabled \in BOOLEAN, ttl \in TTLs : ConstructService(enabled, ttl)
    \/ \E r \in ServiceRecords, o \in BuildOutcomes : BuildExplain(r, o)
    \/ \E o \in BuildOutcomes : BuildGenerate(o)

SpecBuild == BuildInit /\ [][BuildNext]_vars

\* C13: a client or a service is built exactly when a non-empty API key is
\* supplied (as the argument or in the environment at that time); otherwise
\* the construction raises a ValueError and no request has been made; and a
\* call of a built client or service never raises, whatever became of the
\* environment and even if the API refuses the key.
C13_KeyAtConstruction ==
    /\ c_built.kind # "none" =>
           (c_built.kind = "failed" <=> (Falsy(c_built.arg) /\ Falsy(c_built.env)))
    /\ c_built.kind = "failed" =>
           /\ c_built.cls = "ValueError"
           /\ requests = 0
           /\ explains = 0
    /\ ret.op \in {"explain", "generate"} =>
           /\ c_built.kind \in {"client", "service"}
           /\ ~ret.raised

\* a construction of the service failed for want of a key, a later one
\* succeeded, the variable was unset again, and explain_command returned
\* although the API refused the key
C13_Witness ==
    /\ c_built.kind = "service"
    /\ c_built.failed_before
    /\ c_env = None
    /\ ret.op = "explain"
    /\ ret.outcome = Raises("AuthenticationError", "Error code: 401")
    /\ ~ret.raised

----------------------------------------------------------------------------
(* explain_multiple_commands on a service that explained at most one record *)

\* the lists of records, and for a list the lists of outcomes
BatchRecords == UNION {SeqsOfLen(ServiceRecords, n) : n \in 0..MaxBatch}
BatchOutcomes(n) == SeqsOfLen(ServiceOutcomes, n)

BatchStep(rs, os, d) ==
    /\ ~m_ret.done
    /\ \E res \in {explain_multiple_commands(
                       [cache_enabled |-> cache_enabled, cache_ttl |-> cache_ttl,
                        cache |-> cache, seed |-> hash_seed], rs, os, now, d)} :
           /\ res.clock <= MaxTime
           /\ m_ret' = [done |-> TRUE, recs |-> rs, outcomes |-> os,
                        raised |-> res.raised, vals |-> res.val,
                        calls |-> res.calls, before |-> hist]
           /\ cache' = res.cache
           /\ requests' = requests + res.requests
           /\ explains' = explains + Len(res.calls)
           /\ now' = res.clock
    /\ ret' = [NoCall EXCEPT !.op = "batch"]
    /\ UNCHANGED <<cache_enabled, cache_ttl, hash_seed, hist, stamp>>
    /\ UNCHANGED <<c_env, c_built, p_outcome, p_parse, p_gen, p_trip, p_explain,
                   p_json, threads, alias, k_in, k_out>>
    /\ UNCHANGED q_vars

\* one explain_command before the list
BatchFirst(r, o) ==
    /\ explains = 0
    /\ ~m_ret.done
    /\ Explain(r, o, 0)

BatchNext ==
    \/ \E r \in ServiceRecords, o \in ServiceOutcomes : BatchFirst(r, o)
    \/ \E rs \in BatchRecords : \E os \in BatchOutcomes(Len(rs)), d \in 0..1 :
           BatchStep(rs, os, d)

SpecBatch == Init /\ [][BatchNext]_vars

\* what the client makes of outcome o
Generated(o) == generate_explanation(ParseRecord, o).val

\* C14: explain_multiple_commands calls explain_command once per record, in
\* the order of the list; it returns as many Explanations as there are
\* records, the i-th being the one for the i-th record: the client's answer
\* to the i-th completion call if the call made one, and otherwise the
\* Explanation cached for the record's triple (by an earlier record of the
\* list or before the call); a failed completion call changes neither the
\* number nor the order of the results.
C14_InOrder ==
    m_ret.done =>
        /\ ~m_ret.raised
        /\ Len(m_ret.calls) = Len(m_ret.recs)
        /\ Len(m_ret.vals) = Len(m_ret.recs)
        /\ \A i \in 1..Len(m_ret.recs) :
               /\ m_ret.calls[i].rec = m_ret.recs[i]
               /\ m_ret.calls[i].requests > 0 =>
                      m_ret.vals[i] = Generated(m_ret.outcomes[i])
               /\ m_ret.calls[i].requests = 0 =>
                      \/ \E j \in 1..(i - 1) :
                             /\ Triple(m_ret.recs[j]) = Triple(m_ret.recs[i])
                             /\ m_ret.vals[j] = m_ret.vals[i]
                      \/ /\ m_ret.before[Triple(m_ret.recs[i])] # None
                         /\ m_ret.before[Triple(m_ret.recs[i])][1].e = m_ret.vals[i]

\* a list of two records of different triples, the first completion call
\* timing out and the second answering
C14_Witness ==
    /\ m_ret.done
    /\ Len(m_ret.recs) = 2
    /\ Triple(m_ret.recs[1]) # Triple(m_ret.recs[2])
    /\ m_ret.outcomes[1] = Raises("APITimeoutError", "Request timed out.")
    /\ m_ret.outcomes[2] = Reply(Some(GoodReply))
    /\ m_ret.calls[1].requests = 1
    /\ m_ret.calls[2].requests = 1
    /\ m_ret.vals[2].summary = "Package not found"

----------------------------------------------------------------------------
(* Properties of the service: requests *)

----------------------------------------------------------------------------
(* CommandCapture *)

\* mock_commands: the three failed commands of _get_mock_failed_commands
\* (execution_time in tenths of a second)
MockCommands ==
    <<CommandResult(<<"python nonexistent_script.py",
                      "python: can't open file 'nonexistent_script.py': [Errno 2] No such file or directory",
                      2>>,
                    [working_directory |-> Some("/home/user/project"),
                     shell |-> Some("bash"), stdout |-> "", timestamp |-> 0,
                     execution_time |-> Some(1)]),
      CommandResult(<<"npm install missing-package",
                      "npm ERR! code E404\nnpm ERR! 404 Not Found - GET https://registry.npmjs.org/missing-package",
                      1>>,
                    [working_directory |-> Some("/home/user/project"),
                     shell |-> Some("bash"), stdout |-> "", timestamp |-> 0,
                     execution_time |-> Some(25)]),
      CommandResult(<<"git push origin main",
                      "error: failed to push some refs to 'origin'\nhint: Updates were rejected because the remote contains work that you do\nhint: not have locally.",
                      1>>,
                    [working_directory |-> Some("/home/user/project"),
                     shell |-> Some("bash"), stdout |-> "", timestamp |-> 0,
                     execution_time |-> Some(12)])>>

\* xs[:count]: a negative count is counted from the end of the list
PyPrefix(xs, count) ==
    IF count >= 0
    THEN SubSeq(xs, 1, IF count < Len(xs) THEN count ELSE Len(xs))
    ELSE SubSeq(xs, 1, IF Len(xs) + count > 0 THEN Len(xs) + count ELSE 0)

get_mock_failed_commands(count) == PyPrefix(MockCommands, count)

get_last_failed_commands(count) == get_mock_failed_commands(count)

----------------------------------------------------------------------------
(* The functions of the models and of CommandCapture, applied to their     *)
(* arguments                                                               *)

\* fix suggestions that differ in description or in confidence
SomeFixes ==
    {[description |-> d, command |-> None, explanation |-> "", confidence |-> c] :
        d \in {"Install the package", "Check the registry"}, c \in {3, 9}}

FixLists == UNION {SeqsOfLen(SomeFixes, n) : n \in 0..MaxFixes}

\* stderr texts: a letter, a blank and a newline
Stderrs == UNION {SeqsOfLen({"e", " ", "\n"}, n) : n \in 0..MaxStderr}

Counts == (0 - MaxCount)..MaxCount

PrimaryFixCalls == {[fn |-> "primary_fix", arg |-> fs] : fs \in FixLists}

ErrorSummaryCalls == {[fn |-> "error_summary", arg |-> stderr] : stderr \in Stderrs}

GetLastCalls == {[fn |-> "get_last_failed_commands", arg |-> count] : count \in Counts}

ModelsInit ==
    /\ SvcIdle
    /\ PIdle
    /\ KIdle
    /\ CIdle
    /\ MIdle
    /\ \/ q_in \in PrimaryFixCalls
       \/ q_in \in ErrorSummaryCalls
       \/ q_in \in GetLastCalls
    /\ q_out = NoResult

PrimaryFixStep ==
    /\ q_in.fn = "primary_fix"
    /\ ~q_out.done
    /\ q_out' = [done |-> TRUE, val |-> primary_fix(q_in.arg)]
    /\ UNCHANGED <<q_in, p_outcome, p_parse, p_gen, p_trip, p_explain, p_json, threads, alias, k_in, k_out>>
    /\ UNCHANGED svc_vars
    /\ UNCHANGED c_vars

ErrorSummaryStep ==
    /\ q_in.fn = "error_summary"
    /\ ~q_out.done
    /\ q_out' = [done |-> TRUE,
                 val |-> [has_error |-> has_error(q_in.arg),
                          error_summary |-> error_summary(q_in.arg)]]
    /\ UNCHANGED <<q_in, p_outcome, p_parse, p_gen, p_trip, p_explain, p_json, threads, alias, k_in, k_out>>
    /\ UNCHANGED svc_vars
    /\ UNCHANGED c_vars

GetLastStep ==
    /\ q_in.fn = "get_last_failed_commands"
    /\ ~q_out.done
    /\ q_out' = [done |-> TRUE, val |-> get_last_failed_commands(q_in.arg)]
    /\ UNCHANGED <<q_in, p_outcome, p_parse, p_gen, p_trip, p_explain, p_json, threads, alias, k_in, k_out>>
    /\ UNCHANGED svc_vars
    /\ UNCHANGED c_vars

ModelsNext == PrimaryFixStep \/ ErrorSummaryStep \/ GetLastStep

SpecModels == ModelsInit /\ [][ModelsNext]_vars

\* C16: primary_fix returns nothing exactly for the empty list; otherwise it
\* returns the suggestion of greatest confidence, and the first in list
\* order of those that share it.
C16_PrimaryFix ==
    (q_out.done /\ q_in.fn = "primary_fix") =>
        /\ q_out.val = None <=> q_in.arg = <<>>
        /\ q_in.arg # <<>> =>
               \E i \in 1..Len(q_in.arg) :
                   /\ q_out.val = Some(q_in.arg[i])
                   /\ \A j \in 1..Len(q_in.arg) :
                          q_in.arg[j].confidence <= q_in.arg[i].confidence
                   /\ \A j \in 1..(i - 1) :
                          q_in.arg[j].confidence < q_in.arg[i].confidence

\* a list whose greatest confidence is shared by two different suggestions,
\* neither of them the first of the list
C16_Witness ==
    /\ q_out.done
    /\ q_in.fn = "primary_fix"
    /\ \E i, j \in 2..Len(q_in.arg) :
           /\ i < j
           /\ q_in.arg[i] # q_in.arg[j]
           /\ q_in.arg[i].confidence = q_in.arg[j].confidence
           /\ q_in.arg[1].confidence < q_in.arg[i].confidence
           /\ q_out.val = Some(q_in.arg[i])

\* the positions of the characters of s that are not whitespace
Ink(s) == {i \in 1..Len(s) : s[i] \notin {" ", "\n", "\t"}}

\* s from its first to its last character that is not whitespace
Trimmed(s) ==
    SubSeq(s, CHOOSE i \in Ink(s) : \A j \in Ink(s) : i <= j,
              CHOOSE i \in Ink(s) : \A j \in Ink(s) : i >= j)

\* the positions of the newlines of t
Newlines(t) == {i \in 1..Len(t) : t[i] = "\n"}

\* the position of the third newline of t
ThirdNewline(t) ==
    CHOOSE i \in Newlines(t) : Cardinality({j \in Newlines(t) : j < i}) = 2

\* C19: error_summary is empty exactly when stderr has no character that is
\* not whitespace, which is when has_error is false; otherwise it is the
\* stripped stderr if that has at most three lines, and else its first three
\* lines followed by a line "...".
C19_ErrorSummary ==
    (q_out.done /\ q_in.fn = "error_summary") =>
        /\ q_out.val.has_error <=> Ink(q_in.arg) # {}
        /\ q_out.val.error_summary = <<>> <=> Ink(q_in.arg) = {}
        /\ Ink(q_in.arg) # {} =>
               q_out.val.error_summary =
                   IF Cardinality(Newlines(Trimmed(q_in.arg))) <= 2
                   THEN Trimmed(q_in.arg)
                   ELSE SubSeq(Trimmed(q_in.arg), 1,
                               ThirdNewline(Trimmed(q_in.arg)))
                        \o <<".", ".", ".">>

\* a stderr of four lines with whitespace around it has been summarised
C19_Witness ==
    /\ q_out.done
    /\ q_in.fn = "error_summary"
    /\ q_in.arg = <<" ", "e", "\n", "e", "\n", "\n", "e">>
    /\ q_out.val.error_summary = <<"e", "\n", "e", "\n", "\n", ".", ".", ".">>

\* C20: get_last_failed_commands(count) returns at most count results,
\* exactly count of them when count does not exceed the number of failed
\* commands available, and every result is a failed command.
C20_AtMostCount ==
    (q_out.done /\ q_in.fn = "get_last_failed_commands") =>
        /\ Len(q_out.val) <= q_in.arg
        /\ q_in.arg <= Len(MockCommands) => Len(q_out.val) = q_in.arg
        /\ \A i \in 1..Len(q_out.val) : ~is_successful(q_out.val[i])

\* a count of -1 has returned two commands
C20_Witness ==
    /\ q_out.done
    /\ q_in.fn = "get_last_failed_commands"
    /\ q_in.arg = 0 - 1
    /\ Len(q_out.val) = 2
    /\ q_out.val = SubSeq(MockCommands, 1, 2)

----------------------------------------------------------------------------
(* The service with get_cache_stats *)

GetCacheStats ==
    /\ \E res \in {get_cache_stats([cache_enabled |-> cache_enabled,
                                    cache_ttl |-> cache_ttl, cache |-> cache,
                                    seed |-> hash_seed], now)} :
           ret' = [NoCall EXCEPT !.op = "stats", !.raised = res.raised,
                                 !.cls = res.cls, !.val = res.val]
    /\ UNCHANGED <<cache_enabled, cache_ttl, cache, hash_seed, now, explains,
                   requests, hist, stamp>>
    /\ UNCHANGED p_vars

\* the outcomes the statistics are driven with: a reply that parses and a
\* failed call
StatsOutcomes ==
    {Reply(Some(GoodReply)), Raises("APITimeoutError", "Request timed out.")}

StatsNext ==
    \/ \E r \in ServiceRecords, o \in StatsOutcomes, d \in 0..1 : Explain(r, o, d)
    \/ Tick
    \/ ClearCache
    \/ GetCacheStats

SpecStats == Init /\ [][StatsNext]_vars

\* a step that is a call of get_cache_stats
StatsCall == ret'.op = "stats" /\ ret' # ret

\* C18: get_cache_stats reports as size the number of stored entries, fresh
\* and stale alike, and as valid_entries the number of stored entries whose
\* age is below the TTL, so that 0 <= valid_entries <= size; the call leaves
\* the cache as it was.
C18_CacheStats ==
    [][StatsCall =>
          /\ ~ret'.raised
          /\ ret'.val.cache_size = Cardinality(DOMAIN stamp)
          /\ ret'.val.valid_entries =
                 Cardinality({k \in DOMAIN stamp : now - stamp[k] < TTLTicks})
          /\ 0 <= ret'.val.valid_entries
          /\ ret'.val.valid_entries <= ret'.val.cache_size
          /\ cache' = cache
          /\ DOMAIN cache = DOMAIN stamp
          /\ \A k \in DOMAIN cache :
                 fromisoformat(cache[k].timestamp) = Ok(stamp[k])]_vars

\* the statistics of a cache holding a stale and a fresh entry
C18_Witness ==
    /\ ret.op = "stats"
    /\ cache_enabled
    /\ ret.val.cache_size = 2
    /\ ret.val.valid_entries = 1
    /\ \E k \in DOMAIN stamp : now - stamp[k] >= TTLTicks
    /\ \E k \in DOMAIN stamp : now - stamp[k] < TTLTicks

----------------------------------------------------------------------------
(* The service with a caller that writes entries into its cache attribute *)

\* the explanation data of an entry written by _save_to_cache
StoredData ==
    save_to_cache(<<>>, "k", generate_explanation(NoRecord, Reply(Some(GoodReply))).val,
                  0)["k"].explanation

CorruptKinds ==
    {"empty", "no_timestamp", "bad_timestamp", "bad_confidence", "bad_fix"}

\* entries that _save_to_cache does not write: an empty one, one without a
\* timestamp, one whose timestamp is not an ISO text, and two with the
\* timestamp of the moment whose data do not validate (a confidence of 1.5,
\* a fix suggestion without description)
CorruptEntry(kind, clock) ==
    CASE kind = "empty" -> <<>>
      [] kind = "no_timestamp" -> [explanation |-> StoredData]
      [] kind = "bad_timestamp" ->
             [timestamp |-> <<clock \div TicksPerSecond, 0, 0>>,
              explanation |-> StoredData]
      [] kind = "bad_confidence" ->
             [timestamp |-> isoformat(clock),
              explanation |-> [StoredData EXCEPT !.confidence = 15]]
      [] kind = "bad_fix" ->
             [timestamp |-> isoformat(clock),
              explanation |->
                  [StoredData EXCEPT !.fix_suggestions =
                      <<[command |-> None, explanation |-> "", confidence |-> 5]>>]]

\* service.cache[key] = entry for a key the cache holds, by the owner of the
\* service object, at most once between two calls of the service
Corrupt(key, kind) ==
    /\ cache_enabled
    /\ key \in DOMAIN cache
    /\ ret.op # "corrupt"
    /\ cache' = [cache EXCEPT ![key] = CorruptEntry(kind, now)]
    /\ ret' = [NoCall EXCEPT !.op = "corrupt", !.key = key]
    /\ UNCHANGED <<cache_enabled, cache_ttl, hash_seed, now, explains, requests,
                   hist, stamp>>
    /\ UNCHANGED p_vars

\* the keys of the records the service is driven with
ServiceKeys == {generate_cache_key(0, r) : r \in ServiceRecords}

CorruptInit == SvcIdle /\ PIdle /\ KIdle /\ CIdle /\ MIdle /\ QIdle

CorruptNext ==
    \/ \E r \in ServiceRecords : Explain(r, Reply(Some(GoodReply)), 0)
    \/ Tick
    \/ \E key \in ServiceKeys, kind \in CorruptKinds : Corrupt(key, kind)

SpecCorrupt == CorruptInit /\ [][CorruptNext]_vars

\* an entry that cannot be reconstituted: its timestamp is missing or does
\* not parse, or its data do not make an Explanation
Unreadable(entry) ==
    \/ "timestamp" \notin DOMAIN entry
    \/ fromisoformat(entry.timestamp).raised
    \/ load_from_cache(entry).raised

\* C17: an explain_command that finds under its key an entry that cannot be
\* reconstituted treats it as a miss: it does not raise, makes one completion
\* request, returns the client's Explanation and stores it under the key.
C17_CorruptIsMiss ==
    [][(ExplainCall /\ ret'.key \in DOMAIN cache /\ Unreadable(cache[ret'.key])) =>
          /\ ~ret'.raised
          /\ ret'.requests = 1
          /\ ret'.val = generate_explanation(ret'.rec, ret'.outcome).val
          /\ ret'.key \in DOMAIN cache'
          /\ load_from_cache(cache'[ret'.key]) = Ok(ret'.val)]_vars

\* an explain_command has raised on an entry whose timestamp does not parse
\* and made no completion request
C17_Witness ==
    /\ ret.op = "explain"
    /\ ret.raised
    /\ ret.cls = "ValueError"
    /\ ret.requests = 0
    /\ ret.key \in DOMAIN cache
    /\ "timestamp" \in DOMAIN cache[ret.key]
    /\ fromisoformat(cache[ret.key].timestamp).raised

----------------------------------------------------------------------------
(* Properties of the client: what is decoded *)

\* the first '{' of the text comes before its last '}'
Spans(text) ==
    /\ Opens(text) # {}
    /\ Closes(text) # {}
    /\ \E i \in Opens(text) :
           /\ \A j \in Opens(text) : i <= j
           /\ \E k \in Closes(text) : i < k

\* C21: _parse_response gives to json.loads exactly the text from the first
\* '{' to the last '}' of the reply, both included; when the reply has no
\* '{', no '}', or its last '}' before its first '{', it decodes nothing and
\* returns the fallback.
C21_Extraction ==
    (p_parse.done /\ p_outcome.content # None) =>
        /\ p_json.done
        /\ Spans(p_outcome.content[1]) =>
               p_json.val = Some(Braced(p_outcome.content[1]))
        /\ ~Spans(p_outcome.content[1]) =>
               /\ p_json.val = None
               /\ ~p_parse.raised
               /\ IsFallback(p_parse.val)
               /\ Embeds(p_parse.val.detailed_explanation, p_outcome.content[1])

\* a reply whose only '}' comes before its only '{' was not decoded
C21_Witness ==
    /\ p_parse.done
    /\ p_outcome.content # None
    /\ Opens(p_outcome.content[1]) # {}
    /\ Closes(p_outcome.content[1]) # {}
    /\ ~Spans(p_outcome.content[1])
    /\ p_json.val = None

\* a decoded value that float() does not turn into a number
NotCoercible(v) ==
    \/ v.t \in {"null", "list", "dict"}
    \/ v.t = "str" /\ v.s \notin NumLits

\* the fix suggestions of a decoded object: absent, or a list of objects
FixObjects(d) ==
    IF "fix_suggestions" \notin DOMAIN d THEN <<>>
    ELSE d["fix_suggestions"].xs

ListsObjects(d) ==
    "fix_suggestions" \in DOMAIN d =>
        /\ d["fix_suggestions"].t = "list"
        /\ \A i \in 1..Len(d["fix_suggestions"].xs) :
               d["fix_suggestions"].xs[i].t = "dict"

\* the overall confidence or that of a fix suggestion is not coercible
BadConfidence(d) ==
    \/ "confidence" \in DOMAIN d /\ NotCoercible(d["confidence"])
    \/ \E i \in 1..Len(FixObjects(d)) :
           /\ "confidence" \in DOMAIN FixObjects(d)[i].d
           /\ NotCoercible(FixObjects(d)[i].d["confidence"])

\* C22: for a reply whose JSON object decodes and carries a confidence,
\* overall or in a fix suggestion, that cannot be coerced to a number (a
\* non-numeric string, null, a list, an object), _parse_response returns,
\* and does not raise, the fixed fallback embedding the reply text.
C22_NonNumericConfidence ==
    (p_parse.done /\ HasObject(p_outcome.content)
        /\ ListsObjects(Decoded(p_outcome.content))
        /\ BadConfidence(Decoded(p_outcome.content))) =>
        /\ ~p_parse.raised
        /\ IsFallback(p_parse.val)
        /\ Embeds(p_parse.val.detailed_explanation, p_outcome.content[1])

\* _parse_response has raised a TypeError for an overall confidence of null
C22_Witness ==
    /\ p_parse.done
    /\ HasObject(p_outcome.content)
    /\ "confidence" \in DOMAIN Decoded(p_outcome.content)
    /\ Decoded(p_outcome.content)["confidence"] = JNull
    /\ p_parse.raised
    /\ p_parse.cls = "TypeError"

----------------------------------------------------------------------------
(* Properties of the service: what the store keeps *)

\* C23: no operation other than clear_cache removes an entry: over explain
\* and statistics calls and the passing of time the set of stored keys
\* never shrinks, and an explain_command leaves the entries of the other
\* keys as they are, stale or not; after clear_cache the store is empty, and
\* an explain_command on an empty store makes a completion request.
C23_LazyExpiry ==
    [][/\ ret'.op # "clear" => DOMAIN cache \subseteq DOMAIN cache'
       /\ ExplainCall =>
              \A k \in DOMAIN cache \ {ret'.key} : cache'[k] = cache[k]
       /\ ret'.op = "clear" => cache' = <<>>
       /\ (ExplainCall /\ cache = <<>>) => ret'.requests = 1]_vars

\* an explain_command has found a stale entry under its key while a stale
\* entry of another key stays stored
C23_Witness ==
    /\ cache_enabled
    /\ ret.op = "explain"
    /\ ret.age # None
    /\ ret.age[1] >= TTLTicks
    /\ ret.key \in DOMAIN cache
    /\ \E k \in DOMAIN cache :
           /\ k # ret.key
           /\ now - stamp[k] >= TTLTicks
           /\ fromisoformat(cache[k].timestamp) = Ok(stamp[k])

\* the ticks at which the validity of a fresh entry is looked at
Later == 0..(MaxTTL * TicksPerSecond + 1)

\* C24: with the cache enabled, an explain_command that misses, the key
\* being absent or its entry stale, leaves under the key one entry whose
\* explanation is the one it returns and whose timestamp is the time of the
\* store, so that the entry is valid for the whole TTL from then on and no
\* longer.
C24_LastWriteWins ==
    [][(ExplainCall /\ cache_enabled
            /\ (ret'.age = None \/ ret'.age[1] >= TTLTicks)) =>
          /\ ~ret'.raised
          /\ ret'.requests = 1
          /\ ret'.key \in DOMAIN cache'
          /\ load_from_cache(cache'[ret'.key]) = Ok(ret'.val)
          /\ fromisoformat(cache'[ret'.key].timestamp) = Ok(now')
          /\ \A u \in Later :
                 is_cache_valid(cache'[ret'.key], cache_ttl, now' + u)
                     = Ok(u < TTLTicks)]_vars

\* under a positive TTL a stale entry has been overwritten by an answer of
\* the client
C24_Witness ==
    /\ cache_enabled
    /\ cache_ttl > 0
    /\ ret.op = "explain"
    /\ ret.age # None
    /\ ret.age[1] >= TTLTicks
    /\ ret.requests = 1
    /\ ret.outcome = Reply(Some(GoodReply))
    /\ stamp[ret.key] = now
    /\ cache[ret.key].explanation.confidence = 8
    /\ fromisoformat(cache[ret.key].timestamp) = Ok(now)

----------------------------------------------------------------------------
(* Properties of the client and of the cache: the order of the fixes *)

\* the reply's object was mapped: _parse_response returned and not the
\* fallback
Mapped ==
    /\ p_parse.done
    /\ HasObject(p_outcome.content)
    /\ ~p_parse.raised
    /\ ~IsFallback(p_parse.val)

\* the elements of the fix_suggestions array of the reply
ReplyFixes == Field(Decoded(p_outcome.content), "fix_suggestions", JList(<<>>))

\* C25: the fix_suggestions of a parsed Explanation are as many as the
\* elements of the fix_suggestions array of the reply and in the same order,
\* whatever their confidences, and an Explanation loaded from the cache has
\* the fix suggestions that were stored, in the same order.
C25_FixOrder ==
    /\ (Mapped /\ ReplyFixes.t = "list") =>
           /\ Len(p_parse.val.fix_suggestions) = Len(ReplyFixes.xs)
           /\ \A i \in 1..Len(ReplyFixes.xs) :
                  /\ p_parse.val.fix_suggestions[i].description
                         = Field(ReplyFixes.xs[i].d, "description", JStr("")).s
                  /\ PyFloat(Field(ReplyFixes.xs[i].d, "confidence", JNum(5)))
                         = Ok(p_parse.val.fix_suggestions[i].confidence)
    /\ (p_trip.done /\ p_gen.done) =>
           /\ ~p_trip.raised
           /\ p_trip.val.fix_suggestions = p_gen.val.fix_suggestions
    /\ (Mapped /\ p_gen.done) =>
           p_gen.val.fix_suggestions = p_parse.val.fix_suggestions

\* a reply with three fixes whose confidences are not in descending order
\* was parsed, stored and loaded
C25_Witness ==
    /\ Mapped
    /\ p_gen.done
    /\ p_trip.done
    /\ Len(p_trip.val.fix_suggestions) = 3
    /\ \E i, j \in 1..3 :
           /\ i < j
           /\ p_trip.val.fix_suggestions[i].confidence
                  < p_trip.val.fix_suggestions[j].confidence
    /\ \E i, j \in 1..3 :
           /\ i < j
           /\ p_trip.val.fix_suggestions[i].confidence
                  > p_trip.val.fix_suggestions[j].confidence

----------------------------------------------------------------------------
(* explain_command statement by statement, for two calls on one service    *)
(* object: the lookup (lines 39-43), the completion call (line 46) and the *)
(* store (lines 49-50) are separate steps, and nothing in the code keeps    *)
(* the steps of one call together                                           *)

\* lines 39-43: the key, the membership test, _is_cache_valid and
\* _load_from_cache; hit tells whether the call returns here
lookup(svc, command_result, clock) ==
    LET Out(res, hit, cache_key) ==
            [raised |-> res.raised, cls |-> res.cls, msg |-> res.msg,
             val |-> res.val, hit |-> hit, cache_key |-> cache_key]
        Checked(valid, cache_key) ==
            IF valid.raised THEN Out(valid, FALSE, cache_key)
            ELSE IF valid.val
                 THEN Out(load_from_cache(svc.cache[cache_key]), TRUE, cache_key)
            ELSE Out(Ok(NoExplanation), FALSE, cache_key)
        Keyed(cache_key) ==
            Checked(IF svc.cache_enabled /\ cache_key \in DOMAIN svc.cache
                    THEN is_cache_valid(svc.cache[cache_key], svc.cache_ttl, clock)
                    ELSE Ok(FALSE),
                    cache_key)
    IN  Keyed(generate_cache_key(svc.seed, command_result))

\* a variant of the store that leaves an entry that is still valid
store_if_stale(svc, cache_key, explanation, clock) ==
    IF svc.cache_enabled
    THEN IF /\ cache_key \in DOMAIN svc.cache
            /\ is_cache_valid(svc.cache[cache_key], svc.cache_ttl, clock).val = TRUE
         THEN svc.cache
         ELSE save_to_cache(svc.cache, cache_key, explanation, clock)
    ELSE svc.cache

\* lines 49-50: if self.cache_enabled: self._save_to_cache(...)
store(svc, cache_key, explanation, clock) ==
    IF svc.cache_enabled
    THEN save_to_cache(svc.cache, cache_key, explanation, clock)
    ELSE svc.cache

Threads == {1, 2}

\* the service object as the operators take it
Service ==
    [cache_enabled |-> cache_enabled, cache_ttl |-> cache_ttl, cache |-> cache,
     seed |-> hash_seed]

\* a call that has not started
Started(r, o) ==
    [pc |-> "lookup", rec |-> r, outcome |-> o, key |-> "", raised |-> FALSE,
     val |-> NoExplanation, requests |-> 0, seen |-> 0]

ThreadInit ==
    /\ cache_enabled \in BOOLEAN
    /\ cache_ttl = MaxTTL
    /\ cache = <<>>
    /\ hash_seed = 0
    /\ now = 0
    /\ ret = NoCall
    /\ explains = 0
    /\ requests = 0
    /\ hist = [k \in ServiceTriples |-> None]
    /\ stamp = <<>>
    /\ p_outcome = NoOutcome
    /\ p_parse = Unset
    /\ p_gen = Unset
    /\ p_trip = Unset
    /\ p_explain = Unset
    /\ p_json = NoResult
    /\ alias = NoAlias
    /\ KIdle
    /\ CIdle
    /\ MIdle
    /\ QIdle
    /\ \E rs \in [Threads -> ServiceRecords], os \in [Threads -> StatsOutcomes] :
           threads = [procs |-> [t \in Threads |-> Started(rs[t], os[t])],
                      stores |-> <<>>]

\* what a step of a thread leaves alone
ThreadFrame ==
    /\ UNCHANGED <<cache_enabled, cache_ttl, hash_seed, now, ret, explains, hist,
                   stamp>>
    /\ UNCHANGED <<p_outcome, p_parse, p_gen, p_trip, p_explain, p_json, alias,
                   k_in, k_out>>
    /\ UNCHANGED c_vars
    /\ UNCHANGED q_vars

ThreadLookup(t) ==
    /\ threads.procs[t].pc = "lookup"
    /\ \E res \in {lookup(Service, threads.procs[t].rec, now)} :
           threads' = [threads EXCEPT
                          !.procs[t].pc = IF res.raised \/ res.hit THEN "done"
                                          ELSE "generate",
                          !.procs[t].key = res.cache_key,
                          !.procs[t].raised = res.raised,
                          !.procs[t].val = res.val,
                          !.procs[t].seen = Len(threads.stores)]
    /\ UNCHANGED <<cache, requests>>
    /\ ThreadFrame

ThreadGenerate(t) ==
    /\ threads.procs[t].pc = "generate"
    /\ \E res \in {generate_explanation(threads.procs[t].rec,
                                        threads.procs[t].outcome)} :
           /\ threads' = [threads EXCEPT
                             !.procs[t].pc = IF res.raised THEN "done" ELSE "store",
                             !.procs[t].raised = res.raised,
                             !.procs[t].val = res.val,
                             !.procs[t].requests = res.requests]
           /\ requests' = requests + res.requests
    /\ UNCHANGED cache
    /\ ThreadFrame

ThreadStore(t) ==
    /\ threads.procs[t].pc = "store"
    /\ cache' = store(Service, threads.procs[t].key, threads.procs[t].val, now)
    /\ threads' = [threads EXCEPT
                      !.procs[t].pc = "done",
                      !.stores = IF cache_enabled THEN Append(@, t) ELSE @]
    /\ UNCHANGED requests
    /\ ThreadFrame

ThreadNext ==
    \/ \E t \in Threads : ThreadLookup(t)
    \/ \E t \in Threads : ThreadGenerate(t)
    \/ \E t \in Threads : ThreadStore(t)
    \/ Tick

SpecThreads == ThreadInit /\ [][ThreadNext]_vars

\* C26: when two explain_command calls for one key have both made their
\* lookup before either has stored, both make a completion request, two
\* requests for the one key, and with the cache enabled the entry left under
\* the key is the result of the call that stored last.
C26_Stampede ==
    \A a, b \in Threads :
        (/\ a # b
         /\ threads.procs # <<>>
         /\ threads.procs[a].pc = "done"
         /\ threads.procs[b].pc = "done"
         /\ threads.procs[a].key = threads.procs[b].key
         /\ threads.procs[a].seen = 0
         /\ threads.procs[b].seen = 0) =>
            /\ threads.procs[a].requests = 1
            /\ threads.procs[b].requests = 1
            /\ requests = 2
            /\ cache_enabled =>
                   /\ Len(threads.stores) = 2
                   /\ load_from_cache(cache[threads.procs[a].key])
                          = Ok(threads.procs[threads.stores[2]].val)

\* two calls for one key have both looked up before either stored; the
\* answer of the client stored first was replaced by the fallback of the
\* timed-out call stored second
C26_Witness ==
    /\ cache_enabled
    /\ threads.procs # <<>>
    /\ \A t \in Threads : threads.procs[t].pc = "done" /\ threads.procs[t].seen = 0
    /\ threads.procs[1].key = threads.procs[2].key
    /\ requests = 2
    /\ threads.stores = <<1, 2>>
    /\ threads.procs[1].outcome = Reply(Some(GoodReply))
    /\ threads.procs[2].outcome = Raises("APITimeoutError", "Request timed out.")
    /\ Degraded(cache[threads.procs[1].key].explanation)
    /\ ~Degraded(threads.procs[1].val)

----------------------------------------------------------------------------
(* The list objects behind an Explanation and a cache entry. A list is an  *)
(* object named <<owner, field>> in a heap; an Explanation or an entry      *)
(* holds the names of its lists, and two holders of one name share the list *)

\* the heap without the lists of owner
Without(h, owner) == [id \in {i \in DOMAIN h : i[1] # owner} |-> h[id]]

\* the names of the lists of an Explanation with the values v
Lists(owner, v) ==
    {<<owner, "fix_suggestions">>}
    \cup (IF v.related_errors # None THEN {<<owner, "related_errors">>} ELSE {})
    \cup (IF v.prevention_tips # None THEN {<<owner, "prevention_tips">>} ELSE {})

\* Explanation(...): validation builds new lists for the list fields
Construct(h, owner, v) ==
    [heap |->
         [id \in DOMAIN Without(h, owner) \cup Lists(owner, v) |->
             IF id[1] # owner THEN h[id]
             ELSE IF id[2] = "fix_suggestions" THEN v.fix_suggestions
             ELSE v[id[2]][1]],
     e |-> [v EXCEPT
               !.fix_suggestions = <<owner, "fix_suggestions">>,
               !.related_errors =
                   IF @ = None THEN None ELSE Some(<<owner, "related_errors">>),
               !.prevention_tips =
                   IF @ = None THEN None ELSE Some(<<owner, "prevention_tips">>)]]

\* the values of an Explanation or of the explanation of an entry
Value(h, e) ==
    [e EXCEPT !.fix_suggestions = h[@],
              !.related_errors = IF @ = None THEN None ELSE Some(h[@[1]]),
              !.prevention_tips = IF @ = None THEN None ELSE Some(h[@[1]])]

\* _save_to_cache: the list comprehension builds a new list of new dicts for
\* fix_suggestions; related_errors and prevention_tips are stored as the
\* objects the Explanation holds
save_to_cache_shared(h, explanation, clock) ==
    [heap |->
         [id \in DOMAIN Without(h, "entry") \cup {<<"entry", "fix_suggestions">>} |->
             IF id[1] # "entry" THEN h[id]
             ELSE [i \in 1..Len(h[explanation.fix_suggestions]) |->
                      [description |-> h[explanation.fix_suggestions][i].description,
                       command |-> h[explanation.fix_suggestions][i].command,
                       explanation |-> h[explanation.fix_suggestions][i].explanation,
                       confidence |-> h[explanation.fix_suggestions][i].confidence]]],
     entry |->
         [timestamp |-> isoformat(clock),
          explanation |->
              [summary |-> explanation.summary,
               detailed_explanation |-> explanation.detailed_explanation,
               root_cause |-> explanation.root_cause,
               fix_suggestions |-> <<"entry", "fix_suggestions">>,
               confidence |-> explanation.confidence,
               related_errors |-> explanation.related_errors,
               prevention_tips |-> explanation.prevention_tips]]]

\* _load_from_cache: a new Explanation from the values the entry refers to
load_from_cache_shared(h, entry) ==
    LET Loaded(res) ==
            IF res.raised THEN [raised |-> TRUE, heap |-> h, e |-> NoExplanation]
            ELSE [raised |-> FALSE, heap |-> Construct(h, "hit", res.val).heap,
                  e |-> Construct(h, "hit", res.val).e]
    IN  Loaded(load_from_cache([timestamp |-> entry.timestamp,
                                explanation |-> Value(h, entry.explanation)]))

\* the Explanations the client returns: for an answer without lists of
\* strings, for an answer with them, and the fallback
AliasOutcomes ==
    {Reply(Some(GoodReply)), Reply(Some(FullBody)),
     Raises("APITimeoutError", "Request timed out.")}

AliasInit ==
    /\ SvcIdle
    /\ p_outcome = NoOutcome
    /\ p_parse = Unset
    /\ p_gen = Unset
    /\ p_trip = Unset
    /\ p_explain = Unset
    /\ p_json = NoResult
    /\ threads = NoThreads
    /\ KIdle
    /\ CIdle
    /\ MIdle
    /\ QIdle
    /\ \E o \in AliasOutcomes :
           alias = [phase |-> "start", outcome |-> o, heap |-> <<>>,
                    miss |-> NoExplanation, held |-> NoExplanation,
                    entry |-> <<>>, first |-> NoExplanation,
                    hit |-> NoResult, muts |-> 0]

AliasFrame ==
    /\ UNCHANGED svc_vars
    /\ UNCHANGED <<p_outcome, p_parse, p_gen, p_trip, p_explain, p_json, threads,
                   k_in, k_out>>
    /\ UNCHANGED c_vars
    /\ UNCHANGED q_vars

\* explain_command on a miss, the cache enabled: the Explanation of the
\* client is stored and returned
AliasExplain ==
    /\ alias.phase = "start"
    /\ \E made \in {Construct(<<>>, "miss",
                              generate_explanation(ParseRecord, alias.outcome).val)} :
       \E saved \in {save_to_cache_shared(made.heap, made.e, now)} :
           alias' = [alias EXCEPT !.phase = "held",
                                  !.heap = saved.heap,
                                  !.miss = made.e,
                                  !.entry = saved.entry,
                                  !.first = Value(made.heap, made.e)]
    /\ AliasFrame

\* explain_command on a hit, within the TTL
AliasHit ==
    /\ alias.phase = "held"
    /\ \E loaded \in {load_from_cache_shared(alias.heap, alias.entry)} :
           /\ ~loaded.raised
           /\ alias' = [alias EXCEPT !.heap = loaded.heap,
                                     !.held = loaded.e,
                                     !.hit = [done |-> TRUE,
                                              val |-> Value(loaded.heap, loaded.e)]]
    /\ AliasFrame

\* the Explanation a caller changes: the one of the miss or the one of the
\* last hit
Target(which) == IF which = "miss" THEN alias.miss ELSE alias.held

\* the caller appends to a list of strings of an Explanation it holds
AliasAppend(which, field) ==
    /\ alias.phase = "held"
    /\ which = "hit" => alias.hit.done
    /\ alias.muts < MaxMutations
    /\ Target(which)[field] # None
    /\ alias' = [alias EXCEPT !.muts = @ + 1,
                              !.heap[Target(which)[field][1]] = Append(@, "EACCES")]
    /\ AliasFrame

\* the caller deletes the first fix suggestion of an Explanation it holds
AliasDelete(which) ==
    /\ alias.phase = "held"
    /\ which = "hit" => alias.hit.done
    /\ alias.muts < MaxMutations
    /\ alias.heap[Target(which).fix_suggestions] # <<>>
    /\ alias' = [alias EXCEPT !.muts = @ + 1,
                              !.heap[Target(which).fix_suggestions] = Tail(@)]
    /\ AliasFrame

\* the caller assigns to the summary of an Explanation it holds
AliasAssign(which) ==
    /\ alias.phase = "held"
    /\ which = "hit" => alias.hit.done
    /\ alias.muts < MaxMutations
    /\ \/ which = "miss" /\ alias' = [alias EXCEPT !.muts = @ + 1,
                                                   !.miss.summary = "changed"]
       \/ which = "hit" /\ alias' = [alias EXCEPT !.muts = @ + 1,
                                                  !.held.summary = "changed"]
    /\ AliasFrame

AliasNext ==
    \/ AliasExplain
    \/ AliasHit
    \/ \E which \in {"miss", "hit"}, field \in {"related_errors", "prevention_tips"} :
           AliasAppend(which, field)
    \/ \E which \in {"miss", "hit"} : AliasDelete(which)
    \/ \E which \in {"miss", "hit"} : AliasAssign(which)

SpecAlias == AliasInit /\ [][AliasNext]_vars

\* C27: whatever the caller changes in an Explanation that explain_command
\* returned, on a miss or on a hit, or in its lists, a later cache hit for
\* the key returns the Explanation that was stored.
C27_Snapshot ==
    (alias.phase = "held" /\ alias.hit.done) => alias.hit.val = alias.first

\* after the caller appended to related_errors of the Explanation returned
\* on the miss, a hit has returned the longer list, the fix suggestions
\* being those stored
C27_Witness ==
    /\ alias.phase = "held"
    /\ alias.hit.done
    /\ alias.first.related_errors # None
    /\ alias.hit.val.related_errors = Some(Append(alias.first.related_errors[1], "EACCES"))
    /\ alias.hit.val.fix_suggestions = alias.first.fix_suggestions
    /\ alias.hit.val.prevention_tips = alias.first.prevention_tips

----------------------------------------------------------------------------
(* Properties of the service: hits *)

\* C28: a cache hit leaves the store as it was, entry and timestamp, so an
\* entry serves hits exactly until the TTL has passed since the completion
\* call that wrote it, however many hits it served.
C28_NoSlidingExpiry ==
    [][(ExplainCall /\ cache_enabled) =>
          /\ ret'.requests = 0 => cache' = cache
          /\ hist[CallTriple] # None =>
                 (ret'.requests = 0 <=> now - Stored.t < TTLTicks)]_vars

\* an entry was written, served a hit, and missed at the age of the TTL
C28_Witness ==
    /\ cache_enabled
    /\ cache_ttl > 0
    /\ ret.op = "explain"
    /\ explains = 3
    /\ requests = 2
    /\ ret.requests = 1
    /\ ret.age = Some(TTLTicks)

----------------------------------------------------------------------------
(* Properties of the cache key: records of different triples *)

\* C29: two records that differ in command text, stderr or exit code never
\* share a cache entry: they get different keys, the second is not answered
\* from the entry of the first, and the cache holds an entry for each.
C29_NoContamination ==
    (k_out.done /\ Triple(k_in.r1) # Triple(k_in.r2)) =>
        /\ k_out.key1 # k_out.key2
        /\ k_out.requests = 1
        /\ k_out.entries = 2

\* a record was answered from the entry of a record with another stderr and
\* another exit code, their key texts having the same hash
C29_Witness ==
    /\ k_out.done
    /\ k_in.r1.stderr # k_in.r2.stderr
    /\ k_in.r1.exit_code # k_in.r2.exit_code
    /\ KeyDump(k_in.r1) # KeyDump(k_in.r2)
    /\ k_out.key1 = k_out.key2
    /\ k_out.requests = 0
    /\ k_out.entries = 1

----------------------------------------------------------------------------
(* Properties of the service: a TTL of zero or less *)

\* C30: with the cache enabled and a TTL of zero or less, no lookup is a
\* hit: every explain_command makes one completion request and returns what
\* the client produced, and it still stores an entry under its key, with the
\* explanation it returns and the time of the store, which no later lookup
\* finds valid.
C30_NonPositiveTTL ==
    [][(ExplainCall /\ cache_enabled /\ cache_ttl <= 0) =>
          /\ ~ret'.raised
          /\ ret'.requests = 1
          /\ requests' = requests + 1
          /\ ret'.key \in DOMAIN cache'
          /\ load_from_cache(cache'[ret'.key]) = Ok(ret'.val)
          /\ fromisoformat(cache'[ret'.key].timestamp) = Ok(now')
          /\ \A u \in Later :
                 is_cache_valid(cache'[ret'.key], cache_ttl, now' + u)
                     = Ok(FALSE)]_vars

\* under a TTL of zero a record was explained again at the very time its
\* entry was stored, and the client was asked again
C30_Witness ==
    /\ cache_enabled
    /\ cache_ttl = 0
    /\ ret.op = "explain"
    /\ explains >= 2
    /\ ret.age = Some(0)
    /\ ret.requests = 1
    /\ requests = explains
    /\ stamp[ret.key] = now
    /\ fromisoformat(cache[ret.key].timestamp) = Ok(now)

====
